---- MODULE Spec2Model ----
(***************************************************************************)
(* State-machine model of the in-memory Cloudflare binding mocks:         *)
(*   KeyValueStore          src/src/cloudflare/kv.ts       (createMockKV)  *)
(*   ServiceBindingClient   src/src/cloudflare/fetcher.ts  (createMockFetcher) *)
(*   RelationalQueryEngine  src/src/cloudflare/d1.ts       (createMockD1Database) *)
(*   ObjectStore            src/unnamed/part_001           (createMockR2Bucket) *)
(* The components are independent; each has its own specification          *)
(* (SpecKV, SpecFetcher, SpecD1, SpecR2) over the shared variable tuple.   *)
(***************************************************************************)
EXTENDS Integers, Sequences, FiniteSets, TLC

(***************************************************************************)
(* Bounds of the model                                                     *)
(***************************************************************************)
\* the clock advances in steps of 500 ms, at most MaxTicks times
MaxTicks == 4
\* expirationTtl / expiration option values are drawn from 0..MaxTtl
MaxTtl == 1
\* at most MaxFetches fetch calls are made on one fetcher
MaxFetches == 4
\* maxCallHistory values are drawn from -1..MaxCap (and the default)
MaxCap == 2
\* the query history and the binding history are followed up to MaxHistory entries
MaxHistory == 2
\* at most MaxPending put() calls of the object store are suspended at a time
MaxPending == 1
\* at most MaxSessions session objects are created with withSession
MaxSessions == 1
\* at most MaxPoints data points are written to one analytics engine
MaxPoints == 2
\* at most MaxInFlight operations are issued without awaiting the earlier ones
MaxInFlight == 2

(***************************************************************************)
(* Program constants                                                       *)
(***************************************************************************)
\* Date.now() is in milliseconds; TTLs are in seconds (Date.now() / 1000)
MsPerSec == 1000
\* options?.limit ?? 1000
DefaultLimit == 1000
\* const DEFAULT_MAX_CALL_HISTORY = 1000
DEFAULT_MAX_CALL_HISTORY == 1000

(***************************************************************************)
(* Values                                                                  *)
(***************************************************************************)
\* an optional value: None is undefined, Some(x) a given value
None == <<>>
Some(x) == <<x>>
\* JavaScript null, as a result
Null == "null"

\* keys and prefixes are strings, modelled as sequences of characters
Keys == {<<"a">>, <<"a", "b">>}
Prefixes == {<<>>, <<"a", "b">>}
KvValues == {"v1", "v2"}
Metas == {"m1"}

VARIABLES
  clock,       \* the system clock, in ticks of 500 ms (what Date.now() reads)
  store,       \* kv: Map key -> value, as the sequence of its entries in insertion order
  ttls,        \* kv: Map key -> expiration (epoch seconds)
  metadata,    \* kv: Map key -> metadata
  kvPc,        \* kv: "idle", or "list" while a list() call is scanning
  listNow,     \* kv list(): const nowSeconds (kept in ms)
  listPrefix,  \* kv list(): const prefix
  listLimit,   \* kv list(): const limit
  listIdx,     \* kv list(): position of the iterator over store.entries()
  listKeys,    \* kv list(): const keys: KVListKey[]
  expiredKeys, \* kv list(): const expiredKeys: string[] (with what the expiry test saw)
  kvReads,     \* kv list(): number of clock reads made by the call so far
  kvLast,      \* kv: the operation completed by the last step, its snapshot and result
  kvPutAt      \* kv: the last put(k, v, {expirationTtl: t}) at time T whose key was not
               \* written since: [key |-> k, due |-> T + t (in ms), v |-> v]

VARIABLES
  calls,           \* fetcher: const calls: MockFetchCall[]
  responses,       \* fetcher: Map pattern -> config, as its entries in insertion order
  customHandler,   \* fetcher: let customHandler (None when undefined)
  defaultResponse, \* fetcher: let defaultResponse
  maxCallHistory,  \* fetcher: let maxCallHistory
  fPc,             \* fetcher: "idle", or "diverged" once an eviction loop cannot end
  fetchSeq,        \* fetcher: number of fetch calls made so far (numbers the records)
  fDefaultSet,     \* fetcher: whether _setDefaultResponse was called since the last reset
  fLast,           \* fetcher: the operation completed by the last step and its result
  fConfig          \* fetcher: config?.maxCallHistory as given to createMockFetcher

VARIABLES
  queries,     \* d1: const queries: string[]
  bindings,    \* d1: const bindings: unknown[][]
  mockFn,      \* d1: let mockFn (None when undefined)
  stmts,       \* d1: the prepared statements in use: [query, boundValues] per handle
  d1Batch,     \* d1: the batch() call in progress, if any (None otherwise)
  d1Last,      \* d1: the call made by the last step and what it returned
  d1Sessions,  \* d1: the session objects returned by withSession, in creation order
  d1Config     \* d1: the argument given to createMockD1Database (the function takes none)

VARIABLES
  r2Store,     \* r2: const store = new Map<string, StoredR2Object>(), in insertion order
  r2Pending,   \* r2: the put() calls suspended at `await toArrayBuffer(value)`
  r2LastPut,   \* r2: history: the put() that completed last, while its key is untouched
  r2Last       \* r2: the call made by the last step and what it returned

VARIABLES
  kvHist       \* kv: history, kept by the specifications that follow single calls:
               \* the call made by the last step with what its key held before, and
               \* the keys whose latest put() gave no TTL option

VARIABLES
  fInFlight    \* fetcher: history, kept by the specification of concurrent callers:
               \* the fetch calls whose returned promise has not settled yet

VARIABLES
  fHist        \* fetcher: history, kept by the specification of the rules: the last
               \* _setupResponse call and the rules it found

VARIABLES
  d1Hist       \* d1: history, kept by the specification of _reset: whether a _reset
               \* was made with no _setupMock after it, and what that _reset found

VARIABLES
  resetHist    \* history, kept by the specification of the three _reset calls: for each
               \* component, whether it was reset with no write called after that

VARIABLES
  dataPoints   \* analytics: const dataPoints: AnalyticsDataPoint[]

VARIABLES
  r2Hist       \* r2: history, kept by the specification of concurrent callers: the
               \* operation issued last, and whether a call was issued behind a put()
               \* that it can overtake or that can overtake it

VARIABLES
  aeHist       \* analytics: history, kept by the specification of the log: the calls
               \* made since construction or the last _reset, and the last call

kvVars == <<store, ttls, metadata, kvPc, listNow, listPrefix, listLimit, listIdx,
            listKeys, expiredKeys, kvReads, kvLast, kvPutAt>>

fVars == <<calls, responses, customHandler, defaultResponse, maxCallHistory, fPc,
           fetchSeq, fDefaultSet, fLast, fConfig>>

d1Vars == <<queries, bindings, mockFn, stmts, d1Batch, d1Last, d1Sessions, d1Config>>

r2Vars == <<r2Store, r2Pending, r2LastPut, r2Last>>

aeVars == <<dataPoints>>

histVars == <<kvHist, fInFlight, fHist, d1Hist, resetHist, aeHist, r2Hist>>

vars == <<clock, kvVars, fVars, d1Vars, r2Vars, histVars, aeVars>>

(***************************************************************************)
(* The clock                                                               *)
(***************************************************************************)
\* Date.now(): milliseconds
DateNow == clock * 500

\* Math.floor(ms / 1000)
FloorSeconds(ms) == ms \div MsPerSec

(***************************************************************************)
(* Map helpers (JavaScript Map keeps insertion order; set on an existing   *)
(* key keeps its position)                                                 *)
(***************************************************************************)
MapHas(m, k) == \E i \in 1..Len(m) : m[i].key = k
MapIndex(m, k) == CHOOSE i \in 1..Len(m) : m[i].key = k
MapGet(m, k) == IF MapHas(m, k) THEN Some(m[MapIndex(m, k)].value) ELSE None
\* (a variant of set that moves an existing key behind the others)
MapSetMovesToEnd(m, k, v) ==
  Append(SelectSeq(m, LAMBDA e : e.key # k), [key |-> k, value |-> v])
MapSet(m, k, v) ==
  IF MapHas(m, k) THEN [m EXCEPT ![MapIndex(m, k)].value = v]
  ELSE Append(m, [key |-> k, value |-> v])
MapDelete(m, k) == SelectSeq(m, LAMBDA e : e.key # k)

\* maps whose order is never observed are functions with a finite domain
FnGet(f, k) == IF k \in DOMAIN f THEN Some(f[k]) ELSE None
FnSet(f, k, v) == [x \in (DOMAIN f) \cup {k} |-> IF x = k THEN v ELSE f[x]]
FnDel(f, k) == [x \in (DOMAIN f) \ {k} |-> f[x]]
EmptyFn == [x \in {} |-> 0]

\* key.startsWith(prefix)
StartsWith(key, prefix) ==
  /\ Len(prefix) <= Len(key)
  /\ \A i \in 1..Len(prefix) : key[i] = prefix[i]

(***************************************************************************)
(* KeyValueStore                                                           *)
(***************************************************************************)
\* a variant that compares the millisecond clock with the expiration in seconds
isExpiredAtUnits(ttlMap, key, nowMs) ==
  IF key \notin DOMAIN ttlMap THEN FALSE ELSE nowMs > ttlMap[key]

\* a variant that treats the expiration instant itself as expired
isExpiredAtInclusive(ttlMap, key, nowMs) ==
  IF key \notin DOMAIN ttlMap THEN FALSE ELSE nowMs >= ttlMap[key] * MsPerSec

\* isExpiredAt(key, nowSeconds): nowSeconds > expiration, with nowSeconds = nowMs / 1000
isExpiredAt(ttlMap, key, nowMs) ==
  IF key \notin DOMAIN ttlMap THEN FALSE ELSE nowMs > ttlMap[key] * MsPerSec

\* (a variant whose cleanup removes every key that begins with the key)
cleanupStoreByPrefix(s, key) ==
  SelectSeq(s, LAMBDA e : ~(Len(e.key) >= Len(key) /\ SubSeq(e.key, 1, Len(key)) = key))

\* cleanupKey(key): the three maps after the cleanup
cleanupStore(s, key) == MapDelete(s, key)
cleanupTtls(t, key) == FnDel(t, key)
\* (a variant whose cleanup forgets the metadata map)
cleanupMetadataKept(m, key) == m
cleanupMetadata(m, key) == FnDel(m, key)

\* the TTL branch of put: Some(expiration) to set, None to delete the TTL
\* (options are tested for truthiness, so 0 counts as not given)
PutExpiration(nowMs, ttlOpt, expOpt) ==
  IF ttlOpt # None /\ ttlOpt[1] # 0 THEN Some(FloorSeconds(nowMs) + ttlOpt[1])
  ELSE IF expOpt # None /\ expOpt[1] # 0 THEN Some(expOpt[1])
  ELSE None

KvIdle == kvPc = "idle"

\* kvHist before any call is followed
NoHistory == [step |-> [op |-> "none"], plain |-> [x \in {} |-> 0]]

\* kvLast after an operation that returns nothing (put, delete, _reset)
NoResult == [op |-> "none"]

\* kvPutAt once the key is overwritten or deleted
ForgetPut(key) == IF kvPutAt # None /\ kvPutAt[1].key = key THEN None ELSE kvPutAt

ListLocalsUnchanged ==
  UNCHANGED <<kvPc, listNow, listPrefix, listLimit, listIdx, listKeys, expiredKeys>>

\* JSON.parse(text) for the texts the model stores: Some(value), or None when it
\* throws a SyntaxError ("5" is the number 5; "v1", "v2" and "{" are not JSON)
JsonParse(text) == IF text = "5" THEN Some(5) ELSE None

\* what an operation gives back: a value, or an exception that reaches the caller
Returns(v) == [raised |-> FALSE, value |-> v]
Raises == [raised |-> TRUE]

\* a variant without the try / catch around JSON.parse
GetValueUncaught(value, typeOpt) ==
  IF typeOpt = Some("json")
  THEN IF JsonParse(value) # None THEN Returns(JsonParse(value)[1]) ELSE Raises
  ELSE Returns(value)

\* get: the value returned for a stored text, by options?.type
GetValue(value, typeOpt) ==
  IF typeOpt = Some("json")
  THEN IF JsonParse(value) # None THEN Returns(JsonParse(value)[1]) ELSE Returns(value)
  ELSE Returns(value)

\* get(key, {type})
KvGetAs(key, typeOpt) ==
  /\ KvIdle
  /\ LET nowMs == DateNow
         expired == isExpiredAt(ttls, key, nowMs)
         out == IF expired \/ MapGet(store, key) = None THEN Returns(Null)
                ELSE GetValue(MapGet(store, key)[1], typeOpt)
     IN /\ store' = IF expired THEN cleanupStore(store, key) ELSE store
        /\ ttls' = IF expired THEN cleanupTtls(ttls, key) ELSE ttls
        /\ metadata' = IF expired THEN cleanupMetadata(metadata, key) ELSE metadata
        /\ kvReads' = 0
        /\ kvLast' = IF out.raised
                      THEN [op |-> "get", key |-> key, now |-> nowMs, reads |-> 1,
                            judgedAt |-> nowMs, type |-> typeOpt, raised |-> TRUE]
                      ELSE [op |-> "get", key |-> key, now |-> nowMs, reads |-> 1,
                            judgedAt |-> nowMs, type |-> typeOpt, raised |-> FALSE,
                            ret |-> out.value]
  /\ ListLocalsUnchanged
  /\ UNCHANGED <<clock, kvPutAt>>

\* get(key)
KvGet(key) == KvGetAs(key, None)

\* getWithMetadata(key)
KvGetWithMetadata(key) ==
  /\ KvIdle
  /\ LET nowMs == DateNow
         expired == isExpiredAt(ttls, key, nowMs)
     IN /\ store' = IF expired THEN cleanupStore(store, key) ELSE store
        /\ ttls' = IF expired THEN cleanupTtls(ttls, key) ELSE ttls
        /\ metadata' = IF expired THEN cleanupMetadata(metadata, key) ELSE metadata
        /\ kvReads' = 0
        /\ kvLast' = [op |-> "getWithMetadata", key |-> key, now |-> nowMs, reads |-> 1,
                      judgedAt |-> nowMs,
                      ret |-> IF expired \/ MapGet(store, key) = None THEN Null
                              ELSE MapGet(store, key)[1],
                      meta |-> IF expired \/ FnGet(metadata, key) = None THEN Null
                               ELSE FnGet(metadata, key)[1]]
  /\ ListLocalsUnchanged
  /\ UNCHANGED <<clock, kvPutAt>>

\* a variant whose put leaves the TTL entry alone when no TTL option is given
KvPutKeepsTtl(key, value, ttlOpt, expOpt, metaOpt) ==
  /\ KvIdle
  /\ LET nowMs == DateNow
         exp == PutExpiration(nowMs, ttlOpt, expOpt)
         usesTtl == ttlOpt # None /\ ttlOpt[1] # 0
     IN /\ store' = MapSet(store, key, value)
        /\ ttls' = IF exp # None THEN FnSet(ttls, key, exp[1]) ELSE ttls
        /\ metadata' = IF metaOpt # None THEN FnSet(metadata, key, metaOpt[1])
                       ELSE metadata
        /\ kvReads' = 0
        /\ kvLast' = NoResult
        /\ kvPutAt' = IF usesTtl
                       THEN Some([key |-> key, due |-> nowMs + ttlOpt[1] * MsPerSec, v |-> value])
                       ELSE ForgetPut(key)
  /\ ListLocalsUnchanged
  /\ UNCHANGED clock

\* a variant whose put drops the metadata of the key when no metadata option is given
KvPutClearsMetadata(key, value, ttlOpt, expOpt, metaOpt) ==
  /\ KvIdle
  /\ LET nowMs == DateNow
         exp == PutExpiration(nowMs, ttlOpt, expOpt)
         usesTtl == ttlOpt # None /\ ttlOpt[1] # 0
     IN /\ store' = MapSet(store, key, value)
        /\ ttls' = IF exp # None THEN FnSet(ttls, key, exp[1]) ELSE FnDel(ttls, key)
        /\ metadata' = IF metaOpt # None THEN FnSet(metadata, key, metaOpt[1])
                       ELSE FnDel(metadata, key)
        /\ kvReads' = 0
        /\ kvLast' = NoResult
        /\ kvPutAt' = IF usesTtl
                       THEN Some([key |-> key, due |-> nowMs + ttlOpt[1] * MsPerSec, v |-> value])
                       ELSE ForgetPut(key)
  /\ ListLocalsUnchanged
  /\ UNCHANGED clock

\* put(key, value, {expirationTtl, expiration, metadata})
KvPut(key, value, ttlOpt, expOpt, metaOpt) ==
  /\ KvIdle
  /\ LET nowMs == DateNow
         exp == PutExpiration(nowMs, ttlOpt, expOpt)
         usesTtl == ttlOpt # None /\ ttlOpt[1] # 0
     IN /\ store' = MapSet(store, key, value)
        /\ ttls' = IF exp # None THEN FnSet(ttls, key, exp[1]) ELSE FnDel(ttls, key)
        /\ metadata' = IF metaOpt # None THEN FnSet(metadata, key, metaOpt[1])
                       ELSE metadata
        /\ kvReads' = 0
        /\ kvLast' = NoResult
        /\ kvPutAt' = IF usesTtl
                       THEN Some([key |-> key, due |-> nowMs + ttlOpt[1] * MsPerSec, v |-> value])
                       ELSE ForgetPut(key)
  /\ ListLocalsUnchanged
  /\ UNCHANGED clock

\* (a variant of delete that removes the value only)
KvDeleteValueOnly(key) ==
  /\ KvIdle
  /\ store' = MapDelete(store, key)
  /\ kvReads' = 0
  /\ kvLast' = NoResult
  /\ kvPutAt' = ForgetPut(key)
  /\ ListLocalsUnchanged
  /\ UNCHANGED <<clock, ttls, metadata>>

\* delete(key)
KvDelete(key) ==
  /\ KvIdle
  /\ store' = MapDelete(store, key)
  /\ ttls' = FnDel(ttls, key)
  /\ metadata' = FnDel(metadata, key)
  /\ kvReads' = 0
  /\ kvLast' = NoResult
  /\ kvPutAt' = ForgetPut(key)
  /\ ListLocalsUnchanged
  /\ UNCHANGED clock

\* the time list() passes to isExpiredAt for each key: its nowSeconds snapshot
ListJudgeTimeResampled == DateNow

ListJudgeTime == listNow

\* list({prefix, limit}): the snapshot and the locals
KvListStart(prefix, limitOpt) ==
  /\ KvIdle
  /\ kvPc' = "list"
  /\ listNow' = DateNow
  /\ kvReads' = 1
  /\ listKeys' = <<>>
  /\ listPrefix' = prefix
  /\ listLimit' = IF limitOpt = None THEN DefaultLimit ELSE limitOpt[1]
  /\ expiredKeys' = <<>>
  /\ listIdx' = 1
  /\ kvLast' = NoResult
  /\ UNCHANGED <<clock, store, ttls, metadata, kvPutAt>>

\* list(): one iteration of the loop over store.entries()
KvListStep ==
  /\ kvPc = "list"
  /\ listIdx <= Len(store)
  /\ LET key == store[listIdx].key
         at == ListJudgeTime
     IN IF ~StartsWith(key, listPrefix)
        THEN /\ listIdx' = listIdx + 1
             /\ UNCHANGED <<listKeys, expiredKeys>>
        ELSE IF isExpiredAt(ttls, key, at)
        THEN /\ expiredKeys' = Append(expiredKeys,
                                 [name |-> key, expiration |-> FnGet(ttls, key),
                                  judgedAt |-> at])
             /\ listIdx' = listIdx + 1
             /\ UNCHANGED listKeys
        ELSE /\ listKeys' = Append(listKeys,
                              [name |-> key, expiration |-> FnGet(ttls, key),
                               metadata |-> FnGet(metadata, key), judgedAt |-> at])
             \* if (keys.length >= limit) break
             /\ listIdx' = IF Len(listKeys) + 1 >= listLimit THEN Len(store) + 1
                           ELSE listIdx + 1
             /\ UNCHANGED expiredKeys
  /\ UNCHANGED <<clock, store, ttls, metadata, kvPc, listNow, listPrefix, listLimit,
                 kvReads, kvLast, kvPutAt>>

\* (a variant of the cleanup pass that removes the first key of the list only)
cleanupAllStoreFirst(s, ks) ==
  IF ks = <<>> THEN s ELSE cleanupStore(s, Head(ks).name)

\* cleanupKey applied to every key of a list, in order
RECURSIVE cleanupAllStore(_, _)
cleanupAllStore(s, ks) ==
  IF ks = <<>> THEN s ELSE cleanupAllStore(cleanupStore(s, Head(ks).name), Tail(ks))
RECURSIVE cleanupAllTtls(_, _)
cleanupAllTtls(t, ks) ==
  IF ks = <<>> THEN t ELSE cleanupAllTtls(cleanupTtls(t, Head(ks).name), Tail(ks))
RECURSIVE cleanupAllMetadata(_, _)
cleanupAllMetadata(m, ks) ==
  IF ks = <<>> THEN m ELSE cleanupAllMetadata(cleanupMetadata(m, Head(ks).name), Tail(ks))

\* list(): after the loop, the cleanup pass and the result
KvListFinish ==
  /\ kvPc = "list"
  /\ listIdx > Len(store)
  /\ store' = cleanupAllStore(store, expiredKeys)
  /\ ttls' = cleanupAllTtls(ttls, expiredKeys)
  /\ metadata' = cleanupAllMetadata(metadata, expiredKeys)
  /\ kvLast' = [op |-> "list", now |-> listNow, reads |-> kvReads, end |-> DateNow,
                prefix |-> listPrefix, limit |-> listLimit,
                keys |-> listKeys, dropped |-> expiredKeys,
                list_complete |-> Len(listKeys) < listLimit]
  /\ kvPc' = "idle"
  \* the locals of the call are gone
  /\ listNow' = 0
  /\ listPrefix' = <<>>
  /\ listLimit' = 0
  /\ listIdx' = 1
  /\ listKeys' = <<>>
  /\ expiredKeys' = <<>>
  /\ kvReads' = 0
  /\ UNCHANGED <<clock, kvPutAt>>

\* _reset()
KvReset ==
  /\ KvIdle
  /\ store' = <<>>
  /\ ttls' = EmptyFn
  /\ metadata' = EmptyFn
  /\ kvReads' = 0
  /\ kvLast' = NoResult
  /\ kvPutAt' = None
  /\ ListLocalsUnchanged
  /\ UNCHANGED clock

\* time passes between two operations
Advance ==
  /\ clock < MaxTicks
  /\ KvIdle
  /\ clock' = clock + 1
  \* kvLast describes the step just taken only
  /\ kvLast' = NoResult
  /\ UNCHANGED <<store, ttls, metadata, kvPc, listNow, listPrefix, listLimit, listIdx,
                 listKeys, expiredKeys, kvReads, kvPutAt>>

\* time passes while a list() call is running (a real clock, or a mocked clock that
\* ticks on its own: the call itself is synchronous)
AdvanceDuringList ==
  /\ clock < MaxTicks
  /\ kvPc = "list"
  /\ clock' = clock + 1
  /\ UNCHANGED kvVars

OptNums(n) == {None} \cup {Some(i) : i \in 0..n}

\* the {expirationTtl, expiration} options of a put: one of them given (0 included),
\* none, or both
PutTtlOptions ==
  {<<t, None>> : t \in OptNums(MaxTtl)} \cup {<<None, e>> : e \in OptNums(MaxTtl)}
    \cup {<<Some(t), Some(MaxTtl)>> : t \in 0..1}

\* the limit option of a list: not given, 0, 1 or 2
ListLimits == {None, Some(0), Some(1), Some(2)}

InitKV ==
  /\ clock = 0
  /\ store = <<>>
  /\ ttls = EmptyFn
  /\ metadata = EmptyFn
  /\ kvPc = "idle"
  /\ listNow = 0
  /\ listPrefix = <<>>
  /\ listLimit = 0
  /\ listIdx = 1
  /\ listKeys = <<>>
  /\ expiredKeys = <<>>
  /\ kvReads = 0
  /\ kvLast = NoResult
  /\ kvPutAt = None
  /\ kvHist = NoHistory

(***************************************************************************)
(* ServiceBindingClient                                                    *)
(***************************************************************************)
\* URLs and string patterns are strings, modelled as sequences of characters
Urls == {<<"a", "u">>, <<"a">>, <<"x">>}
StringPatterns == {[kind |-> "string", text |-> <<"u">>],
                   [kind |-> "string", text |-> <<"a", "u">>]}
\* two RegExp objects (without the g and y flags, so test() keeps no state):
\* /a/ and /^a/
RegExpPatterns == {[kind |-> "regexp", id |-> 1, anchored |-> FALSE, text |-> <<"a">>],
                   [kind |-> "regexp", id |-> 2, anchored |-> TRUE, text |-> <<"a">>]}
Patterns == StringPatterns \cup RegExpPatterns
\* response configurations {status?, body} given to _setupResponse / _setDefaultResponse
Configs == {[status |-> None, body |-> Some("b1")],
            [status |-> Some(404), body |-> Some("b2")]}
Handlers == {"h1"}

\* url.includes(text)
Includes(url, text) ==
  \E off \in 0..(Len(url) - Len(text)) :
    \A i \in 1..Len(text) : url[off + i] = text[i]

\* pattern.test(url) for the RegExp objects above
RegExpTest(pattern, url) ==
  IF pattern.anchored THEN StartsWith(url, pattern.text) ELSE Includes(url, pattern.text)

\* typeof pattern === 'string' && url.includes(pattern)
StringRuleMatches(pattern, url) == pattern.kind = "string" /\ Includes(url, pattern.text)
\* pattern instanceof RegExp && pattern.test(url)
RegExpRuleMatches(pattern, url) == pattern.kind = "regexp" /\ RegExpTest(pattern, url)

\* the initial default response: { status: 200, body: { success: true } }
InitialDefaultResponse == [status |-> Some(200), body |-> Some("success_true")]

\* JSON.stringify(body)
JsonStringify(body) == <<"json", body>>

\* createResponse(config): status defaults to 200, an undefined body gives ''
createResponse(config) ==
  [kind |-> "response",
   status |-> IF config.status = None THEN 200 ELSE config.status[1],
   body |-> IF config.body = None THEN <<>> ELSE JsonStringify(config.body[1])]

\* what the call customHandler(url, init) gives for a URL: the handler's response
\* (or the promise of it), or the exception of a handler that throws
ThrowingHandlers == {"hThrow"}
HandlerResult(h, url) ==
  IF h \in ThrowingHandlers THEN [kind |-> "thrown", handler |-> h, url |-> url]
  ELSE [kind |-> "handler", handler |-> h, url |-> url]

\* a variant of the first loop that keeps the last string rule that matches
RECURSIVE LastStringMatch(_, _)
LastStringMatch(rs, url) ==
  IF rs = <<>> THEN None
  ELSE LET rest == LastStringMatch(Tail(rs), url)
       IN IF rest # None THEN rest
          ELSE IF StringRuleMatches(Head(rs).key, url) THEN Some(Head(rs).value)
          ELSE None

\* findMatchingResponse, first loop: string patterns in insertion order
RECURSIVE FirstStringMatch(_, _)
FirstStringMatch(rs, url) ==
  IF rs = <<>> THEN None
  ELSE IF StringRuleMatches(Head(rs).key, url) THEN Some(Head(rs).value)
  ELSE FirstStringMatch(Tail(rs), url)

\* findMatchingResponse, second loop: RegExp patterns in insertion order
RECURSIVE FirstRegExpMatch(_, _)
FirstRegExpMatch(rs, url) ==
  IF rs = <<>> THEN None
  ELSE IF RegExpRuleMatches(Head(rs).key, url) THEN Some(Head(rs).value)
  ELSE FirstRegExpMatch(Tail(rs), url)

\* a variant with a single loop over all the rules in insertion order
RECURSIVE findMatchingResponseOnePass(_, _)
findMatchingResponseOnePass(rs, url) ==
  IF rs = <<>> THEN None
  ELSE IF StringRuleMatches(Head(rs).key, url) \/ RegExpRuleMatches(Head(rs).key, url)
       THEN Some(Head(rs).value)
  ELSE findMatchingResponseOnePass(Tail(rs), url)

\* findMatchingResponse(url): Some(config), or None for undefined
findMatchingResponse(rs, url) ==
  IF FirstStringMatch(rs, url) # None THEN FirstStringMatch(rs, url)
  ELSE FirstRegExpMatch(rs, url)

\* a variant of fetch that consults the rules before the custom handler
FetchResponseRulesFirst(h, rs, def, url) ==
  IF findMatchingResponse(rs, url) # None
  THEN createResponse(findMatchingResponse(rs, url)[1])
  ELSE IF h # None THEN HandlerResult(h[1], url)
  ELSE createResponse(def)

\* fetch: the response, from the custom handler, a matching rule or the default
FetchResponse(h, rs, def, url) ==
  IF h # None THEN HandlerResult(h[1], url)
  ELSE IF findMatchingResponse(rs, url) # None
  THEN createResponse(findMatchingResponse(rs, url)[1])
  ELSE createResponse(def)

\* while (calls.length > maxCallHistory) calls.shift() never ends when the limit is
\* negative: shift() on an empty array leaves its length at 0
EvictDiverges(max) == max < 0

\* a variant that evicts at most one record
EvictOnce(c, max) == IF Len(c) > max THEN Tail(c) ELSE c

\* while (calls.length > maxCallHistory) calls.shift(), for a limit >= 0
RECURSIVE Evict(_, _)
Evict(c, max) == IF Len(c) > max THEN Evict(Tail(c), max) ELSE c

FIdle == fPc = "idle"

\* the input of fetch: a URL string, or a Request object
StringInput(url) == [kind |-> "string", url |-> url]
RequestInput(url, method) == [kind |-> "request", url |-> url, method |-> method]

\* init.headers: a Headers object (which keeps its names in lower case), an array of
\* [name, value] pairs, or a plain object; each given by its pairs in order
HeadersObject(pairs) == [shape |-> "headers", pairs |-> pairs]
HeadersArray(pairs) == [shape |-> "array", pairs |-> pairs]
HeadersRecord(pairs) == [shape |-> "object", pairs |-> pairs]

\* the name under which a Headers object reports a header
LowerCase(name) == IF name = "X" THEN "x" ELSE name

\* headers[key] = value for every pair, in order
RECURSIVE AssignAll(_, _)
AssignAll(headers, pairs) ==
  IF pairs = <<>> THEN headers
  ELSE AssignAll(FnSet(headers, Head(pairs)[1], Head(pairs)[2]), Tail(pairs))

\* fetch: const headers: Record<string, string>, after "Extract headers"
ExtractHeaders(init) ==
  IF init = None \/ init[1].headers = None THEN EmptyFn
  ELSE LET h == init[1].headers[1]
       IN IF h.shape = "headers"
          THEN AssignAll(EmptyFn, [i \in 1..Len(h.pairs) |->
                                     <<LowerCase(h.pairs[i][1]), h.pairs[i][2]>>])
          ELSE AssignAll(EmptyFn, h.pairs)

\* init?.method ?? (input instanceof Request ? input.method : 'GET')
CallMethod(input, init) ==
  IF init # None /\ init[1].method # None THEN init[1].method[1]
  ELSE IF input.kind = "request" THEN input.method
  ELSE "GET"

\* the record pushed to calls (n numbers the fetch calls; it is not a field of the
\* record in the code)
CallRecord(n, input, init) ==
  [n |-> n, url |-> input.url, method |-> CallMethod(input, init),
   headers |-> ExtractHeaders(init),
   body |-> IF init = None THEN None ELSE init[1].body,
   timestamp |-> DateNow]

\* a variant that calls the custom handler before it records the call
FetchWithHandlerFirst(input, init) ==
  /\ FIdle
  /\ UNCHANGED fConfig
  /\ fetchSeq < MaxFetches
  /\ fetchSeq' = fetchSeq + 1
  /\ LET url == input.url
         ret == FetchResponse(customHandler, responses, defaultResponse, url)
         pushed == IF ret.kind = "thrown" THEN calls
                   ELSE Append(calls, CallRecord(fetchSeq + 1, input, init))
     IN IF EvictDiverges(maxCallHistory)
        THEN /\ calls' = <<>>
             /\ fPc' = "diverged"
             /\ fLast' = [op |-> "none"]
        ELSE /\ calls' = Evict(pushed, maxCallHistory)
             /\ fPc' = fPc
             /\ fLast' = [op |-> "fetch", url |-> url, lenBefore |-> Len(calls),
                          input |-> input, init |-> init, ret |-> ret]
  /\ UNCHANGED <<responses, customHandler, defaultResponse, maxCallHistory, fDefaultSet>>

\* fetch(input, init): the body has no await, so it runs in one piece when fetch is
\* called; ret is what the body returns (or throws), which settles the promise
FetchWith(input, init) ==
  /\ FIdle
  /\ UNCHANGED fConfig
  /\ fetchSeq < MaxFetches
  /\ fetchSeq' = fetchSeq + 1
  /\ LET url == input.url
         pushed == Append(calls, CallRecord(fetchSeq + 1, input, init))
     IN IF EvictDiverges(maxCallHistory)
        THEN /\ calls' = <<>>
             /\ fPc' = "diverged"
             /\ fLast' = [op |-> "none"]
        ELSE /\ calls' = Evict(pushed, maxCallHistory)
             /\ fPc' = fPc
             /\ fLast' = [op |-> "fetch", url |-> url, lenBefore |-> Len(calls),
                          input |-> input, init |-> init,
                          ret |-> FetchResponse(customHandler, responses,
                                                defaultResponse, url)]
  /\ UNCHANGED <<responses, customHandler, defaultResponse, maxCallHistory, fDefaultSet>>

\* fetch(url)
Fetch(url) == FetchWith(StringInput(url), None)

\* _setupResponse(pathPattern, response, config)
SetupResponse(pattern, config) ==
  /\ FIdle
  /\ UNCHANGED fConfig
  /\ responses' = MapSet(responses, pattern, config)
  /\ fLast' = [op |-> "none"]
  /\ UNCHANGED <<calls, customHandler, defaultResponse, maxCallHistory, fPc, fetchSeq,
                 fDefaultSet>>

\* _setupHandler(handler)
SetupHandler(h) ==
  /\ FIdle
  /\ UNCHANGED fConfig
  /\ customHandler' = Some(h)
  /\ fLast' = [op |-> "none"]
  /\ UNCHANGED <<calls, responses, defaultResponse, maxCallHistory, fPc, fetchSeq,
                 fDefaultSet>>

\* _reset()
FetcherReset ==
  /\ FIdle
  /\ UNCHANGED fConfig
  /\ calls' = <<>>
  /\ responses' = <<>>
  /\ customHandler' = None
  /\ defaultResponse' = InitialDefaultResponse
  /\ fDefaultSet' = FALSE
  /\ fLast' = [op |-> "reset"]
  /\ UNCHANGED <<maxCallHistory, fPc, fetchSeq>>

\* _setDefaultResponse(response, config)
SetDefaultResponse(config) ==
  /\ FIdle
  /\ UNCHANGED fConfig
  /\ defaultResponse' = config
  /\ fDefaultSet' = TRUE
  /\ fLast' = [op |-> "none"]
  /\ UNCHANGED <<calls, responses, customHandler, maxCallHistory, fPc, fetchSeq>>

\* _setMaxCallHistory(max)
SetMaxCallHistory(max) ==
  /\ FIdle
  /\ UNCHANGED fConfig
  /\ maxCallHistory' = max
  /\ IF EvictDiverges(max)
     THEN /\ calls' = <<>>
          /\ fPc' = "diverged"
          /\ fLast' = [op |-> "none"]
     ELSE /\ calls' = Evict(calls, max)
          /\ fPc' = fPc
          /\ fLast' = [op |-> "setMaxCallHistory", lenBefore |-> Len(calls)]
  /\ UNCHANGED <<responses, customHandler, defaultResponse, fetchSeq, fDefaultSet>>

\* createMockFetcher(config): what does not depend on the configuration
InitFetcherCommon ==
  /\ calls = <<>>
  /\ responses = <<>>
  /\ customHandler = None
  /\ defaultResponse = InitialDefaultResponse
  /\ fPc = "idle"
  /\ fetchSeq = 0
  /\ fDefaultSet = FALSE
  /\ fLast = [op |-> "none"]
  /\ fInFlight = {}
  /\ fHist = [op |-> "none"]

\* config?.maxCallHistory ?? DEFAULT_MAX_CALL_HISTORY
ConfiguredMax(config) == IF config = None THEN DEFAULT_MAX_CALL_HISTORY ELSE config[1]

\* createMockFetcher()
InitFetcher ==
  /\ InitFetcherCommon
  /\ fConfig = None
  /\ maxCallHistory = ConfiguredMax(fConfig)

\* createMockFetcher({maxCallHistory: 1})
InitFetcherOneCall ==
  /\ InitFetcherCommon
  /\ fConfig = Some(1)
  /\ maxCallHistory = ConfiguredMax(fConfig)

\* createMockFetcher({maxCallHistory}) with a capacity of at least 1
InitFetcherRecording ==
  /\ InitFetcherCommon
  /\ fConfig \in {Some(m) : m \in 1..MaxCap}
  /\ maxCallHistory = ConfiguredMax(fConfig)

\* createMockFetcher({maxCallHistory}) with any capacity, or without configuration
InitFetcherAnyCapacity ==
  /\ InitFetcherCommon
  /\ fConfig \in {None} \cup {Some(m) : m \in -1..MaxCap}
  /\ maxCallHistory = ConfiguredMax(fConfig)

(***************************************************************************)
(* RelationalQueryEngine                                                   *)
(***************************************************************************)
QueryTexts == {"q1", "q2"}
\* the argument lists given to bind(...values)
BindLists == {<<"1">>, <<"2">>}
\* the handles the calling code holds on prepared statements
StmtIds == {1, 2}

\* JavaScript values a dispatch function returns. An object is the list of its
\* <<field, value>> pairs in enumeration order (the order of Object.values).
JsNull == [t |-> "null"]
JsUndefined == [t |-> "undefined"]
JsPrim(v) == [t |-> "prim", v |-> v]
JsObject(fields) == [t |-> "object", fields |-> fields]
JsArray(items) == [t |-> "array", items |-> items]

RowA == JsObject(<<<<"id", "1">>, <<"name", "A">>>>)
RowB == JsObject(<<<<"name", "B">>, <<"id", "2">>>>)
MetaResult == JsObject(<<<<"results", "none">>, <<"success", "true">>, <<"meta", "m">>>>)

\* the dispatch functions installed with _setupMock: what they return for a query and
\* the bound values
MockFns == {"byQuery", "undef"}
MockApply(fn, query, bound) ==
  IF fn = "undef" THEN JsUndefined
  ELSE IF query = "q1"
       THEN IF bound = <<>> THEN JsArray(<<RowA, RowB>>)
            ELSE IF bound = <<"1">> THEN RowA
            ELSE JsNull
       ELSE IF bound = <<>> THEN JsArray(<<>>)
            ELSE IF bound = <<"1">> THEN MetaResult
            ELSE JsArray(<<JsPrim("7"), JsNull, RowB, JsArray(<<JsPrim("x"), JsPrim("y")>>)>>)

\* Array.isArray(result)
IsArray(v) == v.t = "array"
\* typeof v === 'object' && v !== null
IsNonNullObject(v) == v.t \in {"object", "array"}
\* 'meta' in result
HasMeta(v) == v.t = "object" /\ \E i \in 1..Len(v.fields) : v.fields[i][1] = "meta"

\* a variant that lists the field names
RECURSIVE ObjectKeys(_)
ObjectKeys(v) ==
  IF v.t = "array" THEN v.items
  ELSE IF v.fields = <<>> THEN <<>>
  ELSE <<Head(v.fields)[1]>> \o ObjectKeys(JsObject(Tail(v.fields)))

\* Object.values(row): the values in enumeration order (of an array: its elements)
RECURSIVE ObjectValues(_)
ObjectValues(v) ==
  IF v.t = "array" THEN v.items
  ELSE IF v.fields = <<>> THEN <<>>
  ELSE <<Head(v.fields)[2]>> \o ObjectValues(JsObject(Tail(v.fields)))

\* raw(): result.map(row => typeof row === 'object' && row !== null
\*                          ? Object.values(row) : row)
RECURSIVE RawRows(_)
RawRows(items) ==
  IF items = <<>> THEN <<>>
  ELSE <<IF IsNonNullObject(Head(items)) THEN ObjectValues(Head(items)) ELSE Head(items)>>
       \o RawRows(Tail(items))

\* createDefaultMeta()
DefaultMeta ==
  [duration |-> 0, changes |-> 0, last_row_id |-> 0, rows_read |-> 0,
   rows_written |-> 0, size_after |-> 0, changed_db |-> FALSE]

\* { results, success: true, meta: createDefaultMeta() }
D1Result(results) == [results |-> results, success |-> TRUE, meta |-> DefaultMeta]

\* what the dispatch function returns to an execution: NoDispatch when none is installed
NoDispatch == [t |-> "nofn"]
Dispatch(fn, query, bound) ==
  IF fn = None THEN NoDispatch ELSE MockApply(fn[1], query, bound)

\* first(): the value returned, given the dispatch result (result[0] ?? null for an
\* array, the result itself otherwise)
FirstResult(r) ==
  IF r = NoDispatch THEN JsNull
  ELSE IF IsArray(r)
       THEN (IF r.items = <<>> \/ Head(r.items).t \in {"null", "undefined"}
             THEN JsNull ELSE Head(r.items))
  ELSE r

\* all(): the value returned
AllResult(r) ==
  IF r # NoDispatch /\ IsArray(r) THEN D1Result(r.items)
  ELSE IF r # NoDispatch /\ IsNonNullObject(r) THEN D1Result(<<r>>)
  ELSE D1Result(<<>>)

\* { results: [], success: true, meta: { ...createDefaultMeta(), changes: 1, ... } }
SyntheticRun ==
  [results |-> <<>>, success |-> TRUE,
   meta |-> [DefaultMeta EXCEPT !.changes = 1, !.rows_written = 1,
                                !.last_row_id = 1, !.changed_db = TRUE]]

\* a variant of run() that never passes a dispatch result through
RunResultSynthetic(r) == SyntheticRun

\* run(): the value returned
RunResult(r) ==
  IF r # NoDispatch /\ IsNonNullObject(r) /\ HasMeta(r) THEN r ELSE SyntheticRun

\* raw(): the value returned
RawResult(r) ==
  IF r # NoDispatch /\ IsArray(r) THEN RawRows(r.items) ELSE <<>>

ExecutionMethods == {"first", "all", "run", "raw"}

ExecutionResult(method, r) ==
  CASE method = "first" -> FirstResult(r)
    [] method = "all" -> AllResult(r)
    [] method = "run" -> RunResult(r)
    [] method = "raw" -> RawResult(r)

\* D1 actions leave the session objects and the constructor argument as they are
D1Fixed == UNCHANGED <<d1Sessions, d1Config>>

\* the database object itself (0) or one of its session objects
IsDbOrSession(via) == via \in 0..Len(d1Sessions)

\* createStatement(query), reached as prepare of the database or of a session: a new
\* statement with boundValues = [], held by the calling code as handle s (the
\* handles are kept while a batch runs)
PrepareVia(via, s, q) ==
  /\ IsDbOrSession(via)
  /\ d1Batch = None
  /\ stmts' = [stmts EXCEPT ![s] = [query |-> q, boundValues |-> <<>>, via |-> via,
                                    lastBind |-> None]]
  /\ d1Last' = [op |-> "prepare", via |-> via]
  /\ UNCHANGED <<queries, bindings, mockFn, d1Batch>>
  /\ D1Fixed

\* prepare(query)
D1Prepare(s, q) == PrepareVia(0, s, q)

\* a variant of bind that records nothing
D1BindSilent(s, values) ==
  /\ Len(bindings) < MaxHistory
  /\ stmts' = [stmts EXCEPT ![s].boundValues = values, ![s].lastBind = Some(values)]
  /\ d1Last' = [op |-> "bind", stmt |-> s, via |-> stmts[s].via, values |-> values]
  /\ UNCHANGED <<queries, bindings, mockFn, d1Batch>>
  /\ D1Fixed

\* a variant of bind that adds the values to those bound before
D1BindMerging(s, values) ==
  /\ Len(bindings) < MaxHistory
  /\ stmts' = [stmts EXCEPT ![s].boundValues = @ \o values, ![s].lastBind = Some(values)]
  /\ bindings' = Append(bindings, values)
  /\ d1Last' = [op |-> "bind", stmt |-> s, via |-> stmts[s].via, values |-> values]
  /\ UNCHANGED <<queries, mockFn, d1Batch>>
  /\ D1Fixed

\* statement.bind(...values) (lastBind recalls the argument list of the call)
D1Bind(s, values) ==
  /\ Len(bindings) < MaxHistory
  /\ stmts' = [stmts EXCEPT ![s].boundValues = values, ![s].lastBind = Some(values)]
  /\ bindings' = Append(bindings, values)
  /\ d1Last' = [op |-> "bind", stmt |-> s, via |-> stmts[s].via, values |-> values]
  /\ UNCHANGED <<queries, mockFn, d1Batch>>
  /\ D1Fixed

\* the record of one execution: the method, the statement, what the dispatch function
\* returned and what the method returns
Execution(method, s) ==
  LET r == Dispatch(mockFn, stmts[s].query, stmts[s].boundValues)
  IN [op |-> method, stmt |-> s, via |-> stmts[s].via, dispatch |-> r,
      received |-> stmts[s].boundValues, ret |-> ExecutionResult(method, r)]

\* statement.first() / all() / run() / raw()
D1Execute(method, s) ==
  /\ Len(queries) < MaxHistory
  /\ queries' = Append(queries, stmts[s].query)
  /\ d1Last' = Execution(method, s)
  /\ UNCHANGED <<bindings, mockFn, stmts, d1Batch>>
  /\ D1Fixed

\* a variant in which exec of a session records the query in a history of its own
ExecViaOwnHistory(via, q) ==
  /\ IsDbOrSession(via)
  /\ Len(queries) < MaxHistory
  /\ queries' = IF via = 0 THEN Append(queries, q) ELSE queries
  /\ d1Last' = [op |-> "exec", via |-> via, query |-> q,
                ret |-> [count |-> 1, duration |-> 0]]
  /\ UNCHANGED <<bindings, mockFn, stmts, d1Batch>>
  /\ D1Fixed

\* exec(query) of the database or of a session
ExecVia(via, q) ==
  /\ IsDbOrSession(via)
  /\ Len(queries) < MaxHistory
  /\ queries' = Append(queries, q)
  /\ d1Last' = [op |-> "exec", via |-> via, query |-> q,
                ret |-> [count |-> 1, duration |-> 0]]
  /\ UNCHANGED <<bindings, mockFn, stmts, d1Batch>>
  /\ D1Fixed

\* exec(query)
D1Exec(q) == ExecVia(0, q)

\* batch(statements) of the database or of a session: the call runs up to its first
\* await, that is, it calls run() on the first statement; an empty list returns at
\* once. (list and from recall the argument and the length of the history at the call.)
BatchInvokeVia(via, list) ==
  /\ IsDbOrSession(via)
  /\ d1Batch = None
  /\ Len(queries) + Len(list) <= MaxHistory
  /\ IF list = <<>>
     THEN /\ d1Last' = [op |-> "batch", via |-> via, list |-> list,
                        from |-> Len(queries), ret |-> <<>>]
          /\ UNCHANGED <<queries, d1Batch>>
     ELSE /\ queries' = Append(queries, stmts[Head(list)].query)
          /\ d1Batch' = Some([rest |-> Tail(list), results |-> <<>>, via |-> via,
                              list |-> list, from |-> Len(queries)])
          /\ d1Last' = Execution("run", Head(list))
  /\ UNCHANGED <<bindings, mockFn, stmts>>
  /\ D1Fixed

\* batch(statements)
D1BatchInvoke(list) == BatchInvokeVia(0, list)

\* a variant of batch that returns after its first statement
D1BatchResumeOnce ==
  /\ d1Batch # None
  /\ d1Batch' = None
  /\ d1Last' = [op |-> "batch", via |-> d1Batch[1].via, list |-> d1Batch[1].list,
                from |-> d1Batch[1].from,
                ret |-> Append(d1Batch[1].results, D1Result(<<>>))]
  /\ UNCHANGED <<queries, bindings, mockFn, stmts>>
  /\ D1Fixed

\* batch(statements): after an await, the result of the statement is pushed and run()
\* is called on the next statement, or the results are returned
D1BatchResume ==
  /\ d1Batch # None
  /\ LET b == d1Batch[1]
         results == Append(b.results, D1Result(<<>>))
     IN IF b.rest = <<>>
        THEN /\ d1Batch' = None
             /\ d1Last' = [op |-> "batch", via |-> b.via, list |-> b.list,
                           from |-> b.from, ret |-> results]
             /\ UNCHANGED queries
        ELSE /\ queries' = Append(queries, stmts[Head(b.rest)].query)
             /\ d1Batch' = Some([b EXCEPT !.rest = Tail(b.rest), !.results = results])
             /\ d1Last' = Execution("run", Head(b.rest))
  /\ UNCHANGED <<bindings, mockFn, stmts>>
  /\ D1Fixed

\* the sentinel returned by getBookmark() of a session created without argument
MockBookmark == "mock-bookmark"
Bookmarks == {"bm1"}

\* withSession(constraintOrBookmark): a new session object (mockAtCreation recalls the
\* dispatch function installed at that time)
D1WithSession(arg) ==
  /\ Len(d1Sessions) < MaxSessions
  /\ d1Sessions' = Append(d1Sessions, [constraintOrBookmark |-> arg,
                                       mockAtCreation |-> mockFn])
  /\ d1Last' = [op |-> "withSession"]
  /\ UNCHANGED <<queries, bindings, mockFn, stmts, d1Batch, d1Config>>

\* session.prepare(query)
D1SessionPrepare(i, s, q) == i >= 1 /\ PrepareVia(i, s, q)

\* session.exec(query)
D1SessionExec(i, q) == i >= 1 /\ ExecVia(i, q)

\* session.batch(statements)
D1SessionBatchInvoke(i, list) == i >= 1 /\ BatchInvokeVia(i, list)

\* session.getBookmark(): constraintOrBookmark ?? 'mock-bookmark'
D1GetBookmark(i) ==
  /\ i \in 1..Len(d1Sessions)
  /\ d1Last' = [op |-> "getBookmark", via |-> i,
                ret |-> IF d1Sessions[i].constraintOrBookmark = None THEN MockBookmark
                        ELSE d1Sessions[i].constraintOrBookmark[1]]
  /\ UNCHANGED <<queries, bindings, mockFn, stmts, d1Batch>>
  /\ D1Fixed

\* _setupMock(fn)
D1SetupMock(fn) ==
  /\ mockFn' = Some(fn)
  /\ d1Last' = [op |-> "setupMock"]
  /\ UNCHANGED <<queries, bindings, stmts, d1Batch>>
  /\ D1Fixed

\* a variant whose _reset leaves the dispatch function installed
D1ResetKeepsMock ==
  /\ queries' = <<>>
  /\ bindings' = <<>>
  /\ mockFn' = mockFn
  /\ d1Last' = [op |-> "reset"]
  /\ UNCHANGED <<stmts, d1Batch>>
  /\ D1Fixed

\* _reset()
D1Reset ==
  /\ queries' = <<>>
  /\ bindings' = <<>>
  /\ mockFn' = None
  /\ d1Last' = [op |-> "reset"]
  /\ UNCHANGED <<stmts, d1Batch>>
  /\ D1Fixed

\* createMockD1Database(...), and two statements prepared by the calling code
InitD1Common ==
  /\ queries = <<>>
  /\ bindings = <<>>
  /\ mockFn = None
  /\ stmts = [s \in StmtIds |-> [query |-> "q1", boundValues |-> <<>>, via |-> 0,
                                 lastBind |-> None]]
  /\ d1Batch = None
  /\ d1Last = [op |-> "none"]
  /\ d1Sessions = <<>>
  /\ d1Hist = [sinceReset |-> FALSE]

\* createMockD1Database()
InitD1 ==
  /\ InitD1Common
  /\ d1Config = None

\* createMockD1Database({maxQueryHistory}): JavaScript accepts the argument, the
\* function has no parameter to receive it
InitD1Configured ==
  /\ InitD1Common
  /\ d1Config \in {Some(0), Some(1)}

(***************************************************************************)
(* ObjectStore                                                             *)
(***************************************************************************)
\* Text is a sequence of UTF-16 code units, a payload a sequence of bytes.
\* "hi", "e" with acute accent (U+00E9), U+1F600 as a surrogate pair,
\* U+FEFF followed by "h", and a high surrogate on its own
TextValues ==
  {<<104, 105>>, <<233>>, <<55357, 56832>>, <<65279, 104>>, <<55357>>}

\* the values given to put(): the input shape and its content
TextInput(units) == [shape |-> "text", data |-> units]
BufferInput(bytes) == [shape |-> "buffer", data |-> bytes]
BlobInput(bytes) == [shape |-> "blob", data |-> bytes]
StreamInput(chunks) == [shape |-> "stream", data |-> chunks]

\* generateEtag(): Math.random().toString(36).substring(2, 15); any of these
Etags == {"e1", "e2"}

IsHighSurrogate(u) == u \in 55296..56319
IsLowSurrogate(u) == u \in 56320..57343

\* the UTF-8 bytes of a code point
Utf8Bytes(cp) ==
  IF cp < 128 THEN <<cp>>
  ELSE IF cp < 2048 THEN <<192 + (cp \div 64), 128 + (cp % 64)>>
  ELSE IF cp < 65536
       THEN <<224 + (cp \div 4096), 128 + ((cp \div 64) % 64), 128 + (cp % 64)>>
  ELSE <<240 + (cp \div 262144), 128 + ((cp \div 4096) % 64),
         128 + ((cp \div 64) % 64), 128 + (cp % 64)>>

\* a variant that encodes one byte per code unit
RECURSIVE Latin1Encode(_)
Latin1Encode(units) ==
  IF units = <<>> THEN <<>>
  ELSE <<Head(units) % 256>> \o Latin1Encode(Tail(units))

\* new TextEncoder().encode(value): a surrogate pair is one code point, a surrogate
\* on its own is replaced by U+FFFD
RECURSIVE TextEncode(_)
TextEncode(units) ==
  IF units = <<>> THEN <<>>
  ELSE LET u == Head(units)
       IN IF IsHighSurrogate(u) /\ Len(units) > 1 /\ IsLowSurrogate(units[2])
          THEN Utf8Bytes(65536 + (u - 55296) * 1024 + (units[2] - 56320))
               \o TextEncode(Tail(Tail(units)))
          ELSE IF IsHighSurrogate(u) \/ IsLowSurrogate(u)
          THEN Utf8Bytes(65533) \o TextEncode(Tail(units))
          ELSE Utf8Bytes(u) \o TextEncode(Tail(units))

\* the UTF-8 decoder: the code points of a byte sequence, U+FFFD for each ill-formed
\* part (cp, needed, lower and upper are the decoder's state)
RECURSIVE Utf8Decode(_, _, _, _, _)
Utf8Decode(bytes, cp, needed, lower, upper) ==
  IF bytes = <<>> THEN (IF needed # 0 THEN <<65533>> ELSE <<>>)
  ELSE LET b == Head(bytes)
           rest == Tail(bytes)
       IN IF needed = 0
          THEN IF b <= 127 THEN <<b>> \o Utf8Decode(rest, 0, 0, 128, 191)
               ELSE IF b \in 194..223 THEN Utf8Decode(rest, b - 192, 1, 128, 191)
               ELSE IF b \in 224..239
                    THEN Utf8Decode(rest, b - 224, 2, IF b = 224 THEN 160 ELSE 128,
                                    IF b = 237 THEN 159 ELSE 191)
               ELSE IF b \in 240..244
                    THEN Utf8Decode(rest, b - 240, 3, IF b = 240 THEN 144 ELSE 128,
                                    IF b = 244 THEN 143 ELSE 191)
               ELSE <<65533>> \o Utf8Decode(rest, 0, 0, 128, 191)
          ELSE IF b \notin lower..upper
               THEN <<65533>> \o Utf8Decode(bytes, 0, 0, 128, 191)
          ELSE IF needed = 1
               THEN <<cp * 64 + (b - 128)>> \o Utf8Decode(rest, 0, 0, 128, 191)
          ELSE Utf8Decode(rest, cp * 64 + (b - 128), needed - 1, 128, 191)

\* the UTF-16 code units of a sequence of code points
RECURSIVE ToCodeUnits(_)
ToCodeUnits(cps) ==
  IF cps = <<>> THEN <<>>
  ELSE LET c == Head(cps)
       IN (IF c < 65536 THEN <<c>>
           ELSE <<55296 + ((c - 65536) \div 1024), 56320 + ((c - 65536) % 1024)>>)
          \o ToCodeUnits(Tail(cps))

\* new TextDecoder().decode(body): UTF-8, not fatal, a leading byte order mark dropped
TextDecode(bytes) ==
  LET cps == Utf8Decode(bytes, 0, 0, 128, 191)
  IN ToCodeUnits(IF cps # <<>> /\ Head(cps) = 65279 THEN Tail(cps) ELSE cps)

RECURSIVE ConcatChunks(_)
ConcatChunks(chunks) ==
  IF chunks = <<>> THEN <<>> ELSE Head(chunks) \o ConcatChunks(Tail(chunks))

\* toArrayBuffer(value)
toArrayBuffer(value) ==
  CASE value.shape = "text" -> TextEncode(value.data)
    [] value.shape = "buffer" -> value.data
    [] value.shape = "blob" -> value.data
    [] value.shape = "stream" -> ConcatChunks(value.data)

\* toArrayBuffer resolves in the same turn for text and byte buffers; a blob and a
\* stream resolve when their content has been read
ResolvesAtOnce(value) == value.shape \in {"text", "buffer"}

\* the metadata record built by put()
R2Meta(key, body, etag, customMetadata) ==
  [key |-> key, size |-> Len(body), uploaded |-> DateNow,
   httpEtag |-> <<"dq", etag, "dq">>, etag |-> etag, customMetadata |-> customMetadata]

R2Idle == r2Pending = <<>>

\* put(key, value, options): the call up to `await toArrayBuffer(value)`
R2PutInvokeUpTo(cap, key, value, customMetadata) ==
  /\ Len(r2Pending) < cap
  /\ r2Pending' = Append(r2Pending, [key |-> key, value |-> value,
                                      customMetadata |-> customMetadata])
  /\ r2Last' = [op |-> "putInvoked"]
  /\ UNCHANGED <<r2Store, r2LastPut>>

R2PutInvoke(key, value, customMetadata) ==
  R2PutInvokeUpTo(MaxPending, key, value, customMetadata)

\* a suspended put() is resumed once toArrayBuffer has resolved: a put that resolves
\* at once is resumed before every call suspended after it
CanResume(i) ==
  \A j \in 1..(i - 1) : ~ResolvesAtOnce(r2Pending[j].value)

\* put(key, value, options): from the resumption to the return
R2PutResume(i) ==
  /\ i \in 1..Len(r2Pending)
  /\ CanResume(i)
  /\ \E etag \in Etags :
       LET p == r2Pending[i]
           body == toArrayBuffer(p.value)
           meta == R2Meta(p.key, body, etag, p.customMetadata)
       IN /\ r2Store' = MapSet(r2Store, p.key, [body |-> body, meta |-> meta])
          /\ r2LastPut' = Some([key |-> p.key, value |-> p.value,
                                 customMetadata |-> p.customMetadata])
          /\ r2Last' = [op |-> "put", key |-> p.key, ret |-> meta]
  /\ r2Pending' = [k \in 1..(Len(r2Pending) - 1) |->
                     IF k < i THEN r2Pending[k] ELSE r2Pending[k + 1]]

\* JSON.parse(text) for the JSON the model stores, an unsigned integer literal:
\* Some(number), or None when it throws a SyntaxError (no other text of the model
\* is JSON)
IsDigit(u) == u \in 48..57
RECURSIVE DigitsValue(_, _)
DigitsValue(units, acc) ==
  IF units = <<>> THEN acc ELSE DigitsValue(Tail(units), 10 * acc + (Head(units) - 48))
JsonParseText(units) ==
  IF /\ units # <<>>
     /\ \A i \in 1..Len(units) : IsDigit(units[i])
     /\ (Len(units) = 1 \/ units[1] # 48)
  THEN Some(DigitsValue(units, 0))
  ELSE None

\* json(): JSON.parse(new TextDecoder().decode(body)), with nothing around it
R2Json(body) ==
  IF JsonParseText(TextDecode(body)) = None THEN Raises
  ELSE Returns(JsonParseText(TextDecode(body))[1])

\* get(key): null (found is FALSE), or the metadata with the readers of the payload;
\* text() and json() are given by what they return
R2Get(key) ==
  /\ r2Last' = IF ~MapHas(r2Store, key)
               THEN [op |-> "get", key |-> key, found |-> FALSE]
               ELSE LET stored == MapGet(r2Store, key)[1]
                    IN [op |-> "get", key |-> key, found |-> TRUE, ret |-> stored.meta,
                        arrayBuffer |-> stored.body, text |-> TextDecode(stored.body),
                        json |-> R2Json(stored.body)]
  /\ UNCHANGED <<r2Store, r2Pending, r2LastPut>>

\* head(key): stored?.meta ?? null (found is FALSE for null)
R2Head(key) ==
  /\ r2Last' = IF ~MapHas(r2Store, key)
               THEN [op |-> "head", key |-> key, found |-> FALSE]
               ELSE [op |-> "head", key |-> key, found |-> TRUE,
                     ret |-> MapGet(r2Store, key)[1].meta]
  /\ UNCHANGED <<r2Store, r2Pending, r2LastPut>>

\* (a variant that removes the first key of the list only)
DeleteFirstOnly(m, keys) == IF keys = <<>> THEN m ELSE MapDelete(m, Head(keys))

RECURSIVE DeleteAll(_, _)
DeleteAll(m, keys) ==
  IF keys = <<>> THEN m ELSE DeleteAll(MapDelete(m, Head(keys)), Tail(keys))

\* delete(key | keys[]): keys is the list [key] for a single key
R2Delete(keys) ==
  /\ r2Store' = DeleteAll(r2Store, keys)
  /\ r2LastPut' = IF r2LastPut # None /\ \E i \in 1..Len(keys) : keys[i] = r2LastPut[1].key
                  THEN None ELSE r2LastPut
  /\ r2Last' = [op |-> "delete", keys |-> keys,
                 present |-> {keys[i] : i \in {j \in 1..Len(keys) : MapHas(r2Store, keys[j])}}]
  /\ UNCHANGED r2Pending

\* the loop of list(): the metadata of the matching objects, up to the limit
RECURSIVE R2ListLoop(_, _, _, _)
R2ListLoop(entries, prefix, limit, objects) ==
  IF entries = <<>> THEN objects
  ELSE IF StartsWith(Head(entries).key, prefix)
       THEN LET pushed == Append(objects, Head(entries).value.meta)
            IN IF Len(pushed) >= limit THEN pushed
               ELSE R2ListLoop(Tail(entries), prefix, limit, pushed)
       ELSE R2ListLoop(Tail(entries), prefix, limit, objects)

\* list(options)
R2List(prefixOpt, limitOpt) ==
  /\ LET prefix == IF prefixOpt = None THEN <<>> ELSE prefixOpt[1]
         limit == IF limitOpt = None THEN DefaultLimit ELSE limitOpt[1]
         objects == R2ListLoop(r2Store, prefix, limit, <<>>)
     IN r2Last' = [op |-> "list", prefix |-> prefix, limit |-> limit,
                   objects |-> objects, truncated |-> Len(objects) >= limit]
  /\ UNCHANGED <<r2Store, r2Pending, r2LastPut>>

\* _reset()
R2Reset ==
  /\ r2Store' = <<>>
  /\ r2LastPut' = None
  /\ r2Last' = [op |-> "reset"]
  /\ UNCHANGED r2Pending

\* r2Hist before any call
NoCalls == [last |-> [op |-> "none"], inOrder |-> TRUE]

\* createMockR2Bucket()
InitR2 ==
  /\ r2Store = <<>>
  /\ r2Pending = <<>>
  /\ r2LastPut = None
  /\ r2Last = [op |-> "none"]
  /\ r2Hist = NoCalls

(***************************************************************************)
(* MetricsSink (createMockAnalyticsEngine)                                 *)
(***************************************************************************)
\* resetHist before any call (on names the component that is followed)
NoResets == [on |-> "none", kv |-> FALSE, r2 |-> FALSE, r2Quiet |-> FALSE, ae |-> FALSE]

\* the data points written by the model: any subset of the three fields
DataPointInputs ==
  {None, Some([indexes |-> Some(<<"i1">>), doubles |-> None, blobs |-> None]),
   Some([indexes |-> None, doubles |-> Some(<<1>>), blobs |-> None])}

\* (a variant that keeps the new data point only)
AeWriteReplaces(dataPoint) ==
  /\ Len(dataPoints) < MaxPoints
  /\ dataPoints' =
       <<[indexes |-> IF dataPoint = None THEN None ELSE dataPoint[1].indexes,
          doubles |-> IF dataPoint = None THEN None ELSE dataPoint[1].doubles,
          blobs |-> IF dataPoint = None THEN None ELSE dataPoint[1].blobs,
          timestamp |-> DateNow]>>

\* writeDataPoint(dataPoint?)
AeWriteDataPoint(dataPoint) ==
  /\ Len(dataPoints) < MaxPoints
  /\ dataPoints' = Append(dataPoints,
       [indexes |-> IF dataPoint = None THEN None ELSE dataPoint[1].indexes,
        doubles |-> IF dataPoint = None THEN None ELSE dataPoint[1].doubles,
        blobs |-> IF dataPoint = None THEN None ELSE dataPoint[1].blobs,
        timestamp |-> DateNow])

\* _reset(): dataPoints.length = 0
AeReset == dataPoints' = <<>>

\* aeHist before any call
NoWrites == [writes |-> 0, op |-> "none"]

InitAE ==
  /\ dataPoints = <<>>
  /\ resetHist = NoResets
  /\ aeHist = NoWrites

(***************************************************************************)
(* Specifications                                                          *)
(***************************************************************************)
\* a step of the fetcher leaves the other components alone
FetcherOthers == UNCHANGED <<clock, kvVars, d1Vars, r2Vars, kvHist, fHist, d1Hist, resetHist, aeHist, r2Hist, aeVars>>

\* (the callers await every fetch: no history of the calls in flight is kept)
FetcherFrame == FetcherOthers /\ UNCHANGED fInFlight

\* response resolution: rules, handler and default response vary
NextFetcher ==
  \/ \E u \in Urls : Fetch(u) /\ FetcherFrame
  \/ \E p \in Patterns, c \in Configs : SetupResponse(p, c) /\ FetcherFrame
  \/ \E h \in Handlers : SetupHandler(h) /\ FetcherFrame
  \/ \E c \in Configs : SetDefaultResponse(c) /\ FetcherFrame
  \/ FetcherReset /\ FetcherFrame

\* (the fetcher keeps one call record here: the history does not influence the response)
InitSpecFetcher == InitKV /\ InitFetcherOneCall /\ InitD1 /\ InitR2 /\ InitAE
SpecFetcher == InitSpecFetcher /\ [][NextFetcher]_vars

\* rules registered again and again, with the history of the last registration (at is
\* the position of the pattern among the rules the call found, 0 when it is new)
RulesOthers == UNCHANGED <<clock, kvVars, d1Vars, r2Vars, kvHist, fInFlight, d1Hist,
                           resetHist, aeHist, r2Hist, aeVars>>

NextFetcherRules ==
  \/ Fetch(<<"a", "u">>) /\ UNCHANGED fHist /\ RulesOthers
  \/ \E p \in Patterns, c \in Configs :
       /\ SetupResponse(p, c)
       /\ fHist' = [op |-> "setupResponse", pattern |-> p, config |-> c,
                    at |-> IF MapHas(responses, p) THEN MapIndex(responses, p) ELSE 0,
                    before |-> responses]
       /\ RulesOthers
  \/ FetcherReset /\ fHist' = [op |-> "reset"] /\ RulesOthers

InitSpecFetcherRules == InitKV /\ InitFetcherOneCall /\ InitD1 /\ InitR2 /\ InitAE
SpecFetcherRules == InitSpecFetcherRules /\ [][NextFetcherRules]_vars

\* call history: the capacity varies, at construction and live
NextFetcherHistory ==
  \/ \E u \in Urls : Fetch(u) /\ FetcherFrame
  \/ \E m \in -1..MaxCap : SetMaxCallHistory(m) /\ FetcherFrame
  \/ \E h \in Handlers : SetupHandler(h) /\ FetcherFrame
  \/ FetcherReset /\ FetcherFrame

InitSpecFetcherHistory == InitKV /\ InitFetcherAnyCapacity /\ InitD1 /\ InitR2 /\ InitAE
SpecFetcherHistory == InitSpecFetcherHistory /\ [][NextFetcherHistory]_vars

\* every configuration call, fetch and reset, with one URL, one rule and one response
NextFetcherReset ==
  \/ Fetch(<<"a">>) /\ FetcherFrame
  \/ SetupResponse([kind |-> "string", text |-> <<"a">>], [status |-> Some(404), body |-> Some("b2")])
       /\ FetcherFrame
  \/ \E h \in Handlers : SetupHandler(h) /\ FetcherFrame
  \/ SetDefaultResponse([status |-> None, body |-> Some("b1")]) /\ FetcherFrame
  \/ \E m \in 0..MaxCap : SetMaxCallHistory(m) /\ FetcherFrame
  \/ FetcherReset /\ FetcherFrame

InitSpecFetcherReset == InitKV /\ InitFetcherAnyCapacity /\ InitD1 /\ InitR2 /\ InitAE
SpecFetcherReset == InitSpecFetcherReset /\ [][NextFetcherReset]_vars

\* a step of the engine leaves the other components alone
D1Frame == UNCHANGED <<clock, kvVars, fVars, r2Vars, histVars, aeVars>>

BatchLists == {<<>>, <<1>>, <<1, 2>>, <<2, 1>>}

\* histories: every call that can append to them, under one dispatch function
NextD1 ==
  \/ \E s \in StmtIds, q \in QueryTexts : D1Prepare(s, q) /\ D1Frame
  \/ \E s \in StmtIds, v \in BindLists : D1Bind(s, v) /\ D1Frame
  \/ \E m \in ExecutionMethods, s \in StmtIds : D1Execute(m, s) /\ D1Frame
  \/ \E q \in QueryTexts : D1Exec(q) /\ D1Frame
  \/ \E l \in {<<>>, <<2, 1>>} : D1BatchInvoke(l) /\ D1Frame
  \/ D1BatchResume /\ D1Frame
  \/ D1SetupMock("byQuery") /\ D1Frame
  \/ D1Reset /\ D1Frame

InitSpecD1 == InitKV /\ InitFetcherOneCall /\ InitD1 /\ InitR2 /\ InitAE
SpecD1 == InitSpecD1 /\ [][NextD1]_vars

\* results: statements are prepared, bound and executed under every dispatch function
NextD1Results ==
  \/ \E s \in StmtIds, q \in QueryTexts : D1Prepare(s, q) /\ D1Frame
  \/ \E s \in StmtIds, v \in BindLists : D1Bind(s, v) /\ D1Frame
  \/ \E m \in ExecutionMethods, s \in StmtIds : D1Execute(m, s) /\ D1Frame
  \/ \E f \in MockFns : D1SetupMock(f) /\ D1Frame
  \/ D1Reset /\ D1Frame

InitSpecD1Results == InitKV /\ InitFetcherOneCall /\ InitD1 /\ InitR2 /\ InitAE
SpecD1Results == InitSpecD1Results /\ [][NextD1Results]_vars

\* the calling code awaits every call before it makes the next one
NextD1Sequential ==
  \/ \E s \in StmtIds, q \in QueryTexts : d1Batch = None /\ D1Prepare(s, q) /\ D1Frame
  \/ \E s \in StmtIds, v \in BindLists : d1Batch = None /\ D1Bind(s, v) /\ D1Frame
  \/ \E m \in ExecutionMethods, s \in StmtIds :
       d1Batch = None /\ D1Execute(m, s) /\ D1Frame
  \/ \E q \in QueryTexts : d1Batch = None /\ D1Exec(q) /\ D1Frame
  \/ \E l \in BatchLists : D1BatchInvoke(l) /\ D1Frame
  \/ D1BatchResume /\ D1Frame
  \/ \E f \in MockFns : d1Batch = None /\ D1SetupMock(f) /\ D1Frame
  \/ d1Batch = None /\ D1Reset /\ D1Frame

InitSpecD1Sequential == InitKV /\ InitFetcherOneCall /\ InitD1 /\ InitR2 /\ InitAE
SpecD1Sequential == InitSpecD1Sequential /\ [][NextD1Sequential]_vars

\* sessions: one statement handle, used through the database and through sessions
NextD1Session ==
  \/ \E a \in {None} \cup {Some(b) : b \in Bookmarks} : D1WithSession(a) /\ D1Frame
  \/ \E q \in QueryTexts : D1Prepare(1, q) /\ D1Frame
  \/ \E i \in 1..MaxSessions, q \in QueryTexts : D1SessionPrepare(i, 1, q) /\ D1Frame
  \/ D1Bind(1, <<"1">>) /\ D1Frame
  \/ \E m \in {"first", "run"} : D1Execute(m, 1) /\ D1Frame
  \/ \E i \in 1..MaxSessions, q \in QueryTexts : D1SessionExec(i, q) /\ D1Frame
  \/ \E i \in 1..MaxSessions : D1SessionBatchInvoke(i, <<1>>) /\ D1Frame
  \/ D1BatchResume /\ D1Frame
  \/ \E i \in 1..MaxSessions : D1GetBookmark(i) /\ D1Frame
  \/ D1SetupMock("byQuery") /\ D1Frame
  \/ D1Reset /\ D1Frame

InitSpecD1Session == InitKV /\ InitFetcherOneCall /\ InitD1 /\ InitR2 /\ InitAE
SpecD1Session == InitSpecD1Session /\ [][NextD1Session]_vars

D1Others == UNCHANGED <<clock, kvVars, fVars, r2Vars, kvHist, fInFlight, fHist, resetHist, aeHist, r2Hist, aeVars>>

\* every call of the engine, and _reset at any point (also while a batch is running),
\* with the history of the last _reset
NextD1Reset ==
  \/ \E q \in QueryTexts : D1Prepare(1, q) /\ UNCHANGED d1Hist /\ D1Others
  \/ \E v \in BindLists : D1Bind(1, v) /\ UNCHANGED d1Hist /\ D1Others
  \/ \E m \in ExecutionMethods : D1Execute(m, 1) /\ UNCHANGED d1Hist /\ D1Others
  \/ D1Exec("q1") /\ UNCHANGED d1Hist /\ D1Others
  \/ D1BatchInvoke(<<1, 2>>) /\ UNCHANGED d1Hist /\ D1Others
  \/ D1BatchResume /\ UNCHANGED d1Hist /\ D1Others
  \/ \E f \in MockFns : D1SetupMock(f) /\ d1Hist' = [sinceReset |-> FALSE] /\ D1Others
  \/ D1Reset /\ D1Others
       /\ d1Hist' = [sinceReset |-> TRUE, queries |-> Len(queries),
                     bindings |-> Len(bindings), mock |-> mockFn # None]

InitSpecD1Reset == InitKV /\ InitFetcherOneCall /\ InitD1 /\ InitR2 /\ InitAE
SpecD1Reset == InitSpecD1Reset /\ [][NextD1Reset]_vars

\* calls issued while a batch is suspended between two statements, with the history
\* of who appended each entry of the query history ("batch" or "other")
QueryLog == IF "log" \in DOMAIN d1Hist THEN d1Hist.log ELSE <<>>

Logged(by) ==
  /\ d1Hist' = [sinceReset |-> FALSE,
                log |-> IF Len(queries') > Len(queries)
                        THEN Append(QueryLog, [query |-> queries'[Len(queries')], by |-> by])
                        ELSE QueryLog]
  /\ D1Others

NextD1Concurrent ==
  \/ D1WithSession(None) /\ Logged("other")
  \/ \E s \in StmtIds, q \in QueryTexts : D1Prepare(s, q) /\ Logged("other")
  \/ \E m \in {"first", "run"}, s \in StmtIds : D1Execute(m, s) /\ Logged("other")
  \/ D1Exec("q1") /\ Logged("other")
  \/ \E i \in 1..MaxSessions : D1SessionExec(i, "q2") /\ Logged("other")
  \/ \E l \in {<<1>>, <<1, 2>>, <<2, 1>>} : D1BatchInvoke(l) /\ Logged("batch")
  \/ \E i \in 1..MaxSessions : D1SessionBatchInvoke(i, <<1, 2>>) /\ Logged("batch")
  \/ D1BatchResume /\ Logged("batch")

InitSpecD1Concurrent == InitKV /\ InitFetcherOneCall /\ InitD1 /\ InitR2 /\ InitAE
SpecD1Concurrent == InitSpecD1Concurrent /\ [][NextD1Concurrent]_vars

\* an engine created with a maxQueryHistory argument
NextD1Configured ==
  \/ \E s \in StmtIds, q \in QueryTexts : D1Prepare(s, q) /\ D1Frame
  \/ \E m \in ExecutionMethods, s \in StmtIds : D1Execute(m, s) /\ D1Frame
  \/ \E q \in QueryTexts : D1Exec(q) /\ D1Frame
  \/ D1Reset /\ D1Frame

InitSpecD1Configured == InitKV /\ InitFetcherOneCall /\ InitD1Configured /\ InitR2 /\ InitAE
SpecD1Configured == InitSpecD1Configured /\ [][NextD1Configured]_vars

\* a step of the object store leaves the other components alone
R2Frame == UNCHANGED <<clock, kvVars, fVars, d1Vars, histVars, aeVars>>

\* text payloads, stored and read back
NextR2 ==
  \/ \E k \in Keys, v \in TextValues : R2PutInvoke(k, TextInput(v), None) /\ R2Frame
  \/ \E i \in 1..MaxPending : R2PutResume(i) /\ R2Frame
  \/ \E k \in Keys : R2Get(k) /\ R2Frame
  \/ \E k \in Keys : R2Head(k) /\ R2Frame
  \/ \E k \in Keys : R2Delete(<<k>>) /\ R2Frame
  \/ R2List(None, None) /\ R2Frame
  \/ R2Reset /\ R2Frame

InitSpecR2 == InitKV /\ InitFetcherOneCall /\ InitD1 /\ InitR2 /\ InitAE
SpecR2 == InitSpecR2 /\ [][NextR2]_vars

\* the clock advances between calls of the object store
R2Advance ==
  /\ clock < MaxTicks
  /\ clock' = clock + 1
  /\ UNCHANGED <<kvVars, fVars, d1Vars, r2Vars, histVars, aeVars>>

\* the custom metadata given to put(): none, or a record
CustomMetadatas == {None, Some("m1")}

\* one key written again and again, with and without custom metadata, as time passes
NextR2Overwrite ==
  \/ \E v \in {<<104, 105>>, <<233>>}, cm \in CustomMetadatas :
       R2PutInvoke(<<"a">>, TextInput(v), cm) /\ R2Frame
  \/ \E i \in 1..MaxPending : R2PutResume(i) /\ R2Frame
  \/ R2Get(<<"a">>) /\ R2Frame
  \/ R2Delete(<<<<"a">>>>) /\ R2Frame
  \/ R2Advance

InitSpecR2Overwrite == InitKV /\ InitFetcherOneCall /\ InitD1 /\ InitR2 /\ InitAE
SpecR2Overwrite == InitSpecR2Overwrite /\ [][NextR2Overwrite]_vars

\* operations on one key issued without awaiting the earlier ones: put() with each
\* input shape, delete() and get()
R2Others == UNCHANGED <<clock, kvVars, fVars, d1Vars, aeVars, kvHist, fInFlight, fHist, d1Hist,
                        resetHist, aeHist>>

ConcurrentValues ==
  {TextInput(<<104>>), TextInput(<<105>>), BufferInput(<<1>>), BlobInput(<<2>>),
   StreamInput(<<<<3>>, <<4>>>>)}

\* every put() still suspended resolves its conversion at once, so that a call issued
\* now takes effect behind all of them
BehindNone == \A j \in 1..Len(r2Pending) : ResolvesAtOnce(r2Pending[j].value)

NextR2Concurrent ==
  \/ \E v \in ConcurrentValues :
       /\ R2PutInvokeUpTo(MaxInFlight, <<"a">>, v, None)
       /\ r2Hist' = [last |-> [op |-> "put", value |-> v],
                     inOrder |-> (r2Pending = <<>> \/ (r2Hist.inOrder /\ BehindNone))]
       /\ R2Others
  \/ \E i \in 1..MaxInFlight : R2PutResume(i) /\ UNCHANGED r2Hist /\ R2Others
  \/ /\ R2Delete(<<<<"a">>>>)
     /\ r2Hist' = [last |-> [op |-> "delete"], inOrder |-> (r2Pending = <<>>)]
     /\ R2Others
  \/ R2Get(<<"a">>) /\ UNCHANGED r2Hist /\ R2Others

InitSpecR2Concurrent == InitKV /\ InitFetcherOneCall /\ InitD1 /\ InitR2 /\ InitAE
SpecR2Concurrent == InitSpecR2Concurrent /\ [][NextR2Concurrent]_vars

\* the arguments of fetch: a URL string or a Request object, and init absent or
\* {method, headers, body} with the headers in one of the three shapes
FetchArgs ==
  {<<StringInput(<<"a">>), None>>,
   <<StringInput(<<"a">>),
     Some([method |-> Some("POST"), body |-> Some("b"),
           headers |-> Some(HeadersArray(<<<<"X", "1">>, <<"X", "2">>>>))])>>,
   <<RequestInput(<<"x">>, "PUT"),
     Some([method |-> None, body |-> None, headers |-> Some(HeadersObject(<<<<"X", "1">>>>))])>>,
   <<StringInput(<<"x">>),
     Some([method |-> None, body |-> None, headers |-> Some(HeadersRecord(<<<<"X", "1">>>>))])>>}

\* the promise returned by a fetch call settles, in any order among the calls in flight
FetchSettle(n) ==
  /\ n \in fInFlight
  /\ fInFlight' = fInFlight \ {n}
  /\ UNCHANGED fVars

\* callers that issue fetches without awaiting them, under a handler that answers, a
\* handler that throws, a rule or the default response
NextFetcherCalls ==
  \/ \E a \in FetchArgs :
       FetchWith(a[1], a[2]) /\ fInFlight' = fInFlight \cup {fetchSeq + 1} /\ FetcherOthers
  \/ \E n \in 1..MaxFetches : FetchSettle(n) /\ FetcherOthers
  \/ \E h \in Handlers \cup ThrowingHandlers :
       SetupHandler(h) /\ UNCHANGED fInFlight /\ FetcherOthers
  \/ SetupResponse([kind |-> "string", text |-> <<"a">>], [status |-> Some(404), body |-> Some("b2")])
       /\ UNCHANGED fInFlight /\ FetcherOthers
  \* (the first fetch is made at any time; the calls follow each other closely)
  \/ fetchSeq = 0 /\ R2Advance

InitSpecFetcherCalls == InitKV /\ InitFetcherRecording /\ InitD1 /\ InitR2 /\ InitAE
SpecFetcherCalls == InitSpecFetcherCalls /\ [][NextFetcherCalls]_vars

\* keys with and without a common prefix, deletions of one key and of several, lists
\* under every prefix and limit
R2Keys == {<<"a">>, <<"a", "b">>, <<"b">>}
R2DeleteLists == {<<k>> : k \in R2Keys} \cup {<<>>, <<<<"a">>, <<"b">>>>, <<<<"a", "b">>, <<"a">>>>}
R2ListLimits == {None, Some(0), Some(1), Some(2)}

NextR2Keys ==
  \/ \E k \in R2Keys : R2PutInvoke(k, TextInput(<<104>>), None) /\ R2Frame
  \/ \E i \in 1..MaxPending : R2PutResume(i) /\ R2Frame
  \/ \E k \in R2Keys : R2Get(k) /\ R2Frame
  \/ \E k \in R2Keys : R2Head(k) /\ R2Frame
  \/ \E l \in R2DeleteLists : R2Delete(l) /\ R2Frame
  \/ \E p \in {None, Some(<<"a">>)}, l \in R2ListLimits : R2List(p, l) /\ R2Frame
  \/ R2Reset /\ R2Frame

InitSpecR2Keys == InitKV /\ InitFetcherOneCall /\ InitD1 /\ InitR2 /\ InitAE
SpecR2Keys == InitSpecR2Keys /\ [][NextR2Keys]_vars

\* texts that are JSON ("5", "10", and "5" after a byte order mark) and texts that
\* are not ("{", "01", "hi"), stored under one key and read back
JsonTexts == {<<53>>, <<49, 48>>, <<65279, 53>>, <<123>>, <<48, 49>>, <<104, 105>>}

NextR2Json ==
  \/ \E v \in JsonTexts : R2PutInvoke(<<"a">>, TextInput(v), None) /\ R2Frame
  \/ \E i \in 1..MaxPending : R2PutResume(i) /\ R2Frame
  \/ R2Get(<<"a">>) /\ R2Frame
  \/ R2Head(<<"a">>) /\ R2Frame
  \/ R2Delete(<<<<"a">>>>) /\ R2Frame

InitSpecR2Json == InitKV /\ InitFetcherOneCall /\ InitD1 /\ InitR2 /\ InitAE
SpecR2Json == InitSpecR2Json /\ [][NextR2Json]_vars

\* the metrics sink, written and reset while the clock advances
AeOthers == UNCHANGED <<clock, kvVars, fVars, d1Vars, r2Vars, kvHist, fInFlight, fHist, d1Hist,
                        resetHist, r2Hist>>

\* the arguments of writeDataPoint: nothing, each field alone, all three fields
WriteArgs ==
  DataPointInputs \cup
  {Some([indexes |-> None, doubles |-> None, blobs |-> Some(<<<<7>>>>)]),
   Some([indexes |-> Some(<<"i1">>), doubles |-> Some(<<1>>), blobs |-> Some(<<<<7>>>>)]),
   Some([indexes |-> None, doubles |-> None, blobs |-> None])}

NextAE ==
  \/ R2Advance
  \/ \E d \in WriteArgs :
       /\ AeWriteDataPoint(d)
       /\ aeHist' = [writes |-> aeHist.writes + 1, op |-> "write", arg |-> d,
                     before |-> dataPoints, at |-> DateNow]
       /\ AeOthers
  \/ /\ AeReset
     /\ aeHist' = [writes |-> 0, op |-> "reset", before |-> dataPoints]
     /\ AeOthers

InitSpecAE == InitKV /\ InitFetcherOneCall /\ InitD1 /\ InitR2 /\ InitAE
SpecAE == InitSpecAE /\ [][NextAE]_vars

\* the three components that have nothing but collections, each written, read and
\* reset; the put() of the object store may be in flight when _reset is called.
\* The components share no state, so one of them is followed in each behaviour.
ResetKvOnly == UNCHANGED <<fVars, d1Vars, r2Vars, aeVars, kvHist, fInFlight, fHist, d1Hist, aeHist, r2Hist>>
ResetR2Only == UNCHANGED <<clock, kvVars, fVars, d1Vars, aeVars, kvHist, fInFlight, fHist, d1Hist, aeHist, r2Hist>>
ResetAeOnly == UNCHANGED <<clock, kvVars, fVars, d1Vars, r2Vars, kvHist, fInFlight, fHist, d1Hist, aeHist, r2Hist>>

Followed(c) == resetHist.on \in {"none", c}
Read(c) == resetHist' = [resetHist EXCEPT !.on = c]
Written(c) ==
  resetHist' = [resetHist EXCEPT !.on = c, !.kv = IF c = "kv" THEN FALSE ELSE @,
                                 !.r2 = IF c = "r2" THEN FALSE ELSE @,
                                 !.ae = IF c = "ae" THEN FALSE ELSE @]

NextReset ==
  \/ Followed("kv") /\ Advance /\ Read("kv") /\ ResetKvOnly
  \/ \E k \in Keys, t \in {None, Some(1)}, m \in {None, Some("m1")} :
       Followed("kv") /\ KvPut(k, "v1", t, None, m) /\ Written("kv") /\ ResetKvOnly
  \/ \E k \in Keys : Followed("kv") /\ KvGet(k) /\ Read("kv") /\ ResetKvOnly
  \/ \E k \in Keys : Followed("kv") /\ KvGetWithMetadata(k) /\ Read("kv") /\ ResetKvOnly
  \/ Followed("kv") /\ KvListStart(<<>>, None) /\ Read("kv") /\ ResetKvOnly
  \/ Followed("kv") /\ KvListStep /\ Read("kv") /\ ResetKvOnly
  \/ Followed("kv") /\ KvListFinish /\ Read("kv") /\ ResetKvOnly
  \/ Followed("kv") /\ KvReset /\ ResetKvOnly
       /\ resetHist' = [resetHist EXCEPT !.on = "kv", !.kv = TRUE]
  \/ \E k \in Keys, v \in {TextInput(<<104>>), BlobInput(<<104>>)} :
       Followed("r2") /\ R2PutInvoke(k, v, None) /\ Written("r2") /\ ResetR2Only
  \/ \E i \in 1..MaxPending : Followed("r2") /\ R2PutResume(i) /\ Read("r2") /\ ResetR2Only
  \/ \E k \in Keys : Followed("r2") /\ R2Get(k) /\ Read("r2") /\ ResetR2Only
  \/ \E k \in Keys : Followed("r2") /\ R2Head(k) /\ Read("r2") /\ ResetR2Only
  \/ Followed("r2") /\ R2List(None, None) /\ Read("r2") /\ ResetR2Only
  \/ Followed("r2") /\ R2Reset /\ ResetR2Only
       /\ resetHist' = [resetHist EXCEPT !.on = "r2", !.r2 = TRUE,
                                         !.r2Quiet = (r2Pending = <<>>)]
  \/ \E d \in DataPointInputs :
       Followed("ae") /\ AeWriteDataPoint(d) /\ Written("ae") /\ ResetAeOnly
  \/ Followed("ae") /\ AeReset /\ ResetAeOnly
       /\ resetHist' = [resetHist EXCEPT !.on = "ae", !.ae = TRUE]

InitSpecReset == InitKV /\ InitFetcherOneCall /\ InitD1 /\ InitR2 /\ InitAE
SpecReset == InitSpecReset /\ [][NextReset]_vars

\* a step of the store leaves the other components alone
KvOthers == UNCHANGED <<fVars, d1Vars, r2Vars, aeVars, fInFlight, fHist, d1Hist, resetHist, aeHist, r2Hist>>

\* (no history is kept of the single calls)
KvFrame == KvOthers /\ UNCHANGED kvHist

NextKV ==
  \/ Advance /\ KvFrame
  \/ \E k \in Keys : KvGet(k) /\ KvFrame
  \/ \E k \in Keys : KvGetWithMetadata(k) /\ KvFrame
  \/ \E k \in Keys, v \in KvValues, o \in PutTtlOptions,
        m \in {None} \cup {Some(x) : x \in Metas} : KvPut(k, v, o[1], o[2], m) /\ KvFrame
  \/ \E k \in Keys : KvDelete(k) /\ KvFrame
  \/ \E p \in Prefixes, l \in ListLimits : KvListStart(p, l) /\ KvFrame
  \/ KvListStep /\ KvFrame
  \/ KvListFinish /\ KvFrame
  \/ KvReset /\ KvFrame

InitSpecKV == InitKV /\ InitFetcher /\ InitD1 /\ InitR2 /\ InitAE
SpecKV == InitSpecKV /\ [][NextKV]_vars

\* the store under a clock that also advances inside a list() call; puts carry no
\* metadata here
NextKVClock ==
  \/ Advance /\ KvFrame
  \/ AdvanceDuringList /\ KvFrame
  \/ \E k \in Keys : KvGet(k) /\ KvFrame
  \/ \E k \in Keys : KvGetWithMetadata(k) /\ KvFrame
  \/ \E k \in Keys, v \in KvValues, o \in PutTtlOptions :
        KvPut(k, v, o[1], o[2], None) /\ KvFrame
  \/ \E p \in Prefixes, l \in ListLimits : KvListStart(p, l) /\ KvFrame
  \/ KvListStep /\ KvFrame
  \/ KvListFinish /\ KvFrame

InitSpecKVClock == InitKV /\ InitFetcher /\ InitD1 /\ InitR2 /\ InitAE
SpecKVClock == InitSpecKVClock /\ [][NextKVClock]_vars

\* what the three maps hold for a key
KeyHeld(key) ==
  [value |-> MapGet(store, key), ttl |-> FnGet(ttls, key), meta |-> FnGet(metadata, key)]

\* history of a call on one key: what the key held before the call, whether the call
\* changed any of the three maps, and the keys whose latest put gave no TTL option
Follow(op, key, plain) ==
  kvHist' = [step |-> [op |-> op, key |-> key, had |-> KeyHeld(key),
                       changed |-> <<store', ttls', metadata'>> # <<store, ttls, metadata>>],
             plain |-> plain]

\* history of a step that is not a call on one key
FollowStep(op, plain) == kvHist' = [step |-> [op |-> op], plain |-> plain]

\* the keys whose latest put gave neither expirationTtl nor expiration, after a put:
\* each with the TTL entry that put found
PlainAfterPut(key, ttlOpt, expOpt) ==
  IF ttlOpt = None /\ expOpt = None THEN FnSet(kvHist.plain, key, FnGet(ttls, key))
  ELSE IF key \in DOMAIN kvHist.plain THEN FnDel(kvHist.plain, key)
  ELSE kvHist.plain

PlainWithout(key) ==
  IF key \in DOMAIN kvHist.plain THEN FnDel(kvHist.plain, key) ELSE kvHist.plain

\* values of the store: a text that is not JSON and one that is
LifeValues == {"{", "5"}
GetTypes == {None, Some("json")}

\* every call of the store, one at a time, with the history of each call
NextKVLife ==
  \/ Advance /\ FollowStep("advance", kvHist.plain) /\ KvOthers
  \/ \E k \in Keys, t \in GetTypes :
       KvGetAs(k, t) /\ Follow("get", k, kvHist.plain) /\ KvOthers
  \/ \E k \in Keys :
       KvGetWithMetadata(k) /\ Follow("getWithMetadata", k, kvHist.plain) /\ KvOthers
  \/ \E k \in Keys, v \in LifeValues, t \in {None, Some(1)},
        m \in {None} \cup {Some(x) : x \in Metas} :
       KvPut(k, v, t, None, m) /\ Follow("put", k, PlainAfterPut(k, t, None)) /\ KvOthers
  \/ \E k \in Keys : KvDelete(k) /\ Follow("delete", k, PlainWithout(k)) /\ KvOthers
  \/ \E p \in Prefixes :
       KvListStart(p, None) /\ FollowStep("listStart", kvHist.plain) /\ KvOthers
  \/ KvListStep /\ UNCHANGED kvHist /\ KvOthers
  \/ KvListFinish /\ FollowStep("list", kvHist.plain) /\ KvOthers
  \/ KvReset /\ FollowStep("reset", EmptyFn) /\ KvOthers

InitSpecKVLife == InitKV /\ InitFetcher /\ InitD1 /\ InitR2 /\ InitAE
SpecKVLife == InitSpecKVLife /\ [][NextKVLife]_vars

\* history of the metadata: for each key, the put that attached metadata to it and
\* has not been followed by a delete or an expiry cleanup of the key; lapsed tells
\* that a later put without metadata option found the key expired
Attached == IF "attached" \in DOMAIN kvHist THEN kvHist.attached ELSE EmptyFn

Without(f, ks) == [x \in (DOMAIN f) \ ks |-> f[x]]

AttachedAfterPut(key, metaOpt) ==
  IF metaOpt # None THEN FnSet(Attached, key, [lapsed |-> FALSE, meta |-> metaOpt[1]])
  ELSE IF key \in DOMAIN Attached
  THEN [Attached EXCEPT ![key].lapsed = @ \/ isExpiredAt(ttls, key, DateNow)]
  ELSE Attached

AttachedAfterRead(key) ==
  IF isExpiredAt(ttls, key, DateNow) THEN Without(Attached, {key}) ELSE Attached

MetaStepWith(op, key, ttlOpt, metaOpt, attached) ==
  /\ kvHist' = [step |-> [op |-> op, key |-> key, ttl |-> ttlOpt, meta |-> metaOpt,
                          expired |-> isExpiredAt(ttls, key, DateNow)],
                attached |-> attached]
  /\ KvOthers

MetaStep(op, key, metaOpt, attached) == MetaStepWith(op, key, None, metaOpt, attached)

\* puts with and without metadata and TTL, reads, deletes and lists as time passes
NextKVMeta ==
  \/ Advance /\ MetaStep("advance", <<>>, None, Attached)
  \/ \E k \in Keys : KvGet(k) /\ MetaStep("get", k, None, AttachedAfterRead(k))
  \/ \E k \in Keys :
       KvGetWithMetadata(k) /\ MetaStep("getWithMetadata", k, None, AttachedAfterRead(k))
  \/ \E k \in Keys, t \in {None, Some(1)}, m \in {None, Some("m1"), Some("m2")} :
       KvPut(k, "v1", t, None, m) /\ MetaStepWith("put", k, t, m, AttachedAfterPut(k, m))
  \/ \E k \in Keys : KvDelete(k) /\ MetaStep("delete", k, None, Without(Attached, {k}))
  \/ KvListStart(<<>>, None) /\ MetaStep("listStart", <<>>, None, Attached)
  \/ KvListStep /\ UNCHANGED kvHist /\ KvOthers
  \/ KvListFinish
       /\ MetaStep("list", <<>>, None,
                   Without(Attached, {expiredKeys[i].name : i \in 1..Len(expiredKeys)}))
  \/ KvReset /\ MetaStep("reset", <<>>, None, EmptyFn)

InitSpecKVMeta == InitKV /\ InitFetcher /\ InitD1 /\ InitR2 /\ InitAE
SpecKVMeta == InitSpecKVMeta /\ [][NextKVMeta]_vars

\* TTLs set and cleared by put, under every combination of the two TTL options
NextKVTtl ==
  \/ Advance /\ FollowStep("advance", kvHist.plain) /\ KvOthers
  \/ \E k \in Keys : KvGet(k) /\ Follow("get", k, kvHist.plain) /\ KvOthers
  \/ \E k \in Keys, o \in PutTtlOptions :
       KvPut(k, "v1", o[1], o[2], None) /\ Follow("put", k, PlainAfterPut(k, o[1], o[2]))
         /\ KvOthers
  \/ \E k \in Keys : KvDelete(k) /\ Follow("delete", k, PlainWithout(k)) /\ KvOthers
  \/ KvListStart(<<>>, None) /\ FollowStep("listStart", kvHist.plain) /\ KvOthers
  \/ KvListStep /\ UNCHANGED kvHist /\ KvOthers
  \/ KvListFinish /\ FollowStep("list", kvHist.plain) /\ KvOthers

InitSpecKVTtl == InitKV /\ InitFetcher /\ InitD1 /\ InitR2 /\ InitAE
SpecKVTtl == InitSpecKVTtl /\ [][NextKVTtl]_vars

(***************************************************************************)
(* KeyValueStore: properties                                               *)
(***************************************************************************)
\* the elements of a sequence
Range(q) == {q[i] : i \in 1..Len(q)}

\* C1: after put(k, v, {expirationTtl: t}), t >= 1, at clock time T, a get(k) whose
\* snapshot is T + t - 1 s returns v, and a get(k) whose snapshot is T + t + 1 s
\* returns null and leaves k absent from the value store, the TTL map and the
\* metadata map.
C1_TtlReadAroundExpiry ==
  (kvLast.op = "get" /\ kvPutAt # None /\ kvPutAt[1].key = kvLast.key) =>
    LET p == kvPutAt[1]
    IN /\ (kvLast.now = p.due - MsPerSec) => (kvLast.ret = p.v)
       /\ (kvLast.now = p.due + MsPerSec) =>
            /\ kvLast.ret = Null
            /\ ~MapHas(store, p.key)
            /\ p.key \notin DOMAIN ttls
            /\ p.key \notin DOMAIN metadata

\* C1 witness: a get one second past the end of the TTL has answered null
C1_Witness ==
  /\ kvLast.op = "get"
  /\ kvPutAt # None
  /\ kvPutAt[1].key = kvLast.key
  /\ kvLast.now = kvPutAt[1].due + MsPerSec
  /\ kvLast.ret = Null

\* C2 as stated: list() never returns a key whose stored expiration is at or before
\* (<=) the snapshot of that list call.
C2_ListExcludesAtOrBefore ==
  kvLast.op = "list" =>
    \A e \in Range(kvLast.keys) :
      e.expiration # None => ~(e.expiration[1] * MsPerSec <= kvLast.now)

\* C2 amended: list() never returns a key whose stored expiration is strictly before
\* the snapshot of that list call, and every key it sets aside as expired has an
\* expiration strictly before the snapshot: a key whose expiration equals the
\* snapshot is still returned.
C2_ListExcludesStrictlyBefore ==
  kvLast.op = "list" =>
    /\ \A e \in Range(kvLast.keys) :
         e.expiration # None => e.expiration[1] * MsPerSec >= kvLast.now
    /\ \A e \in Range(kvLast.dropped) :
         e.expiration # None /\ e.expiration[1] * MsPerSec < kvLast.now

\* C2 witness: a list has returned a key whose expiration equals its snapshot
C2_Witness ==
  /\ kvLast.op = "list"
  /\ \E e \in Range(kvLast.keys) :
       e.expiration # None /\ e.expiration[1] * MsPerSec = kvLast.now

\* C3: get, getWithMetadata and list read the clock exactly once, at their start,
\* and judge the expiration of every key they touch against that single value, also
\* when the clock advances while a list call is in progress.
C3_SingleSnapshot ==
  /\ kvPc = "list" =>
       /\ kvReads = 1
       /\ \A e \in Range(listKeys) \cup Range(expiredKeys) : e.judgedAt = listNow
  /\ kvLast.op = "list" =>
       /\ kvLast.reads = 1
       /\ \A e \in Range(kvLast.keys) \cup Range(kvLast.dropped) :
            e.judgedAt = kvLast.now
  /\ kvLast.op \in {"get", "getWithMetadata"} =>
       kvLast.reads = 1 /\ kvLast.judgedAt = kvLast.now

\* C3 witness: a list call during which the clock advanced has judged two keys
C3_Witness ==
  /\ kvLast.op = "list"
  /\ Len(kvLast.keys) + Len(kvLast.dropped) >= 2
  /\ kvLast.end > kvLast.now

(***************************************************************************)
(* ServiceBindingClient: properties                                        *)
(***************************************************************************)
Min(a, b) == IF a <= b THEN a ELSE b
MinOf(S) == CHOOSE x \in S : \A y \in S : x <= y

\* the positions of the string rules, and of the RegExp rules, that match the URL of
\* the last fetch
StringHits == {i \in 1..Len(responses) : StringRuleMatches(responses[i].key, fLast.url)}
RegExpHits == {i \in 1..Len(responses) : RegExpRuleMatches(responses[i].key, fLast.url)}

\* C4: after every fetch and every _setMaxCallHistory(m), _calls holds at most
\* maxCallHistory records, and they are exactly the most recent calls, in call order
\* (the oldest evicted first): a fetch leaves min(previous + 1, capacity) records and
\* lowering the capacity to m leaves the newest min(previous, m) at once.
C4_BoundedHistory ==
  (FIdle /\ maxCallHistory >= 0) =>
    /\ Len(calls) <= maxCallHistory
    /\ \A i \in 1..Len(calls) : calls[i].n = fetchSeq - Len(calls) + i
    /\ fLast.op = "fetch" => Len(calls) = Min(fLast.lenBefore + 1, maxCallHistory)
    /\ fLast.op = "setMaxCallHistory" => Len(calls) = Min(fLast.lenBefore, maxCallHistory)

\* C4 witness: capacity + 1 fetches have been made; call #1 is gone, the last is kept
C4_Witness ==
  /\ FIdle
  /\ fLast.op = "fetch"
  /\ maxCallHistory >= 2
  /\ fetchSeq = maxCallHistory + 1
  /\ Len(calls) = maxCallHistory
  /\ calls[1].n = 2
  /\ calls[Len(calls)].n = fetchSeq

\* C5: with no custom handler, when a string rule and a regex rule both match the URL,
\* fetch returns the (earliest matching) string rule's response, whichever of the
\* rules was registered first.
C5_StringBeforeRegExp ==
  (fLast.op = "fetch" /\ customHandler = None /\ StringHits # {} /\ RegExpHits # {}) =>
    fLast.ret = createResponse(responses[MinOf(StringHits)].value)

\* C5 witness: the regex rule was registered before the string rule, with another
\* response, and the string rule's response came back
C5_Witness ==
  /\ fLast.op = "fetch"
  /\ customHandler = None
  /\ StringHits # {}
  /\ RegExpHits # {}
  /\ MinOf(RegExpHits) < MinOf(StringHits)
  /\ responses[MinOf(RegExpHits)].value # responses[MinOf(StringHits)].value
  /\ fLast.ret = createResponse(responses[MinOf(StringHits)].value)

\* C6: while a custom handler is installed, every fetch returns the handler's result;
\* no string rule, regex rule or default response is used.
C6_HandlerOverrides ==
  (fLast.op = "fetch" /\ customHandler # None) =>
    fLast.ret = HandlerResult(customHandler[1], fLast.url)

\* C6 witness: a fetch answered by the handler although a string rule and a regex rule
\* match and a default response was configured
C6_Witness ==
  /\ fLast.op = "fetch"
  /\ customHandler # None
  /\ StringHits # {}
  /\ RegExpHits # {}
  /\ fDefaultSet
  /\ fLast.ret.kind = "handler"

D1QuietOps == {"prepare", "setupMock", "batch"}

\* C8 (as stated): the query history grows only in a call of first, all, run or raw
\* (run's calls inside batch included), by exactly one entry carrying the statement's
\* query text; prepare and bind add none; each bind adds exactly one entry to the
\* binding history.
C8_OnlyExecutionMethodsAppend ==
  [][/\ Len(queries') > Len(queries) =>
          /\ d1Last'.op \in ExecutionMethods
          /\ queries' = Append(queries, stmts[d1Last'.stmt].query)
     /\ d1Last'.op = "bind" =>
          /\ bindings' = Append(bindings, d1Last'.values)
          /\ queries' = queries
     /\ d1Last'.op # "bind" => Len(bindings') <= Len(bindings)]_vars

\* C8 (amended): each call of first, all, run or raw (run's calls inside batch
\* included) appends exactly one entry, the statement's query text, to the query
\* history, and each exec call appends its query argument; no other call makes the
\* query history grow; each bind call appends exactly its argument list to the binding
\* history at bind time, and no other call makes the binding history grow.
C8_HistoryGrowth ==
  [][/\ d1Last'.op \in ExecutionMethods =>
          /\ queries' = Append(queries, stmts[d1Last'.stmt].query)
          /\ bindings' = bindings
     /\ d1Last'.op = "exec" =>
          /\ queries' = Append(queries, d1Last'.query)
          /\ bindings' = bindings
     /\ d1Last'.op = "bind" =>
          /\ bindings' = Append(bindings, d1Last'.values)
          /\ queries' = queries
     /\ d1Last'.op \in D1QuietOps =>
          /\ queries' = queries
          /\ bindings' = bindings
     /\ Len(queries') > Len(queries) => d1Last'.op \in ExecutionMethods \cup {"exec"}
     /\ Len(bindings') > Len(bindings) => d1Last'.op = "bind"]_vars

\* C8 witness: one statement bound twice with different values and executed after
\* each bind: two binding entries, two query entries with the same text
C8_Witness ==
  /\ d1Last.op \in ExecutionMethods
  /\ stmts[d1Last.stmt].query = "q2"
  /\ queries = <<"q2", "q2">>
  /\ bindings = <<<<"1">>, <<"2">>>>
  /\ stmts[d1Last.stmt].boundValues = <<"2">>

\* the values of an object, by position in its field list
ValuesByPosition(obj, out) ==
  /\ Len(out) = Len(obj.fields)
  /\ \A j \in 1..Len(obj.fields) : out[j] = obj.fields[j][2]

\* the rows of an array dispatch result are projected one by one, in order
ArrayRowsProjected(r, ret) ==
  /\ Len(ret) = Len(r.items)
  /\ \A i \in 1..Len(r.items) :
       r.items[i].t = "object" => ValuesByPosition(r.items[i], ret[i])

\* C9 (as stated): raw() projects each object row that the dispatch function
\* produced to the list of its values in field order, keeping the row order; a
\* dispatch result that is one object {id: 1, name: 'A'} yields [1, 'A'].
C9_RawProjectsEveryObject ==
  d1Last.op = "raw" =>
    /\ d1Last.dispatch.t = "array" => ArrayRowsProjected(d1Last.dispatch, d1Last.ret)
    /\ d1Last.dispatch.t = "object" => ValuesByPosition(d1Last.dispatch, d1Last.ret)

\* C9 (the part that holds): when the dispatch function returns an array, raw() returns one entry
\* per row in the same order, each object row projected to the list of its values in
\* field order; for every other dispatch result, a single object included, raw()
\* returns the empty list.
C9_RawProjectsArrayRows ==
  d1Last.op = "raw" =>
    IF d1Last.dispatch.t = "array"
    THEN ArrayRowsProjected(d1Last.dispatch, d1Last.ret)
    ELSE d1Last.ret = <<>>

\* C9 witness: raw() on a dispatch result of two object rows
C9_Witness ==
  /\ d1Last.op = "raw"
  /\ d1Last.dispatch = JsArray(<<RowA, RowB>>)
  /\ d1Last.ret = <<<<"1", "A">>, <<"B", "2">>>>

(***************************************************************************)
(* ObjectStore: properties                                                 *)
(***************************************************************************)
\* the number of bytes of the UTF-8 form of a text without unpaired surrogates
\* (a surrogate is half of a four-byte sequence)
RECURSIVE Utf8Length(_)
Utf8Length(units) ==
  IF units = <<>> THEN 0
  ELSE (IF Head(units) < 128 THEN 1
        ELSE IF Head(units) < 2048 THEN 2
        ELSE IF IsHighSurrogate(Head(units)) \/ IsLowSurrogate(Head(units)) THEN 2
        ELSE 3) + Utf8Length(Tail(units))

\* every surrogate of the text is part of a pair
WellFormed(units) ==
  \A i \in 1..Len(units) :
    /\ IsHighSurrogate(units[i]) => i < Len(units) /\ IsLowSurrogate(units[i + 1])
    /\ IsLowSurrogate(units[i]) => i > 1 /\ IsHighSurrogate(units[i - 1])

StartsWithByteOrderMark(units) == units # <<>> /\ Head(units) = 65279

\* the last step read, with get or head, the key of the put of a text that
\* completed last
ReadsLastPut ==
  /\ r2LastPut # None
  /\ r2LastPut[1].value.shape = "text"
  /\ r2Last.op \in {"get", "head"}
  /\ r2Last.key = r2LastPut[1].key

\* C10 (as stated): for every key and every text v, get after put(k, v) yields a
\* handle whose text() is v and whose size is the byte length of v, and head reports
\* the same size.
C10_RoundTripEveryText ==
  ReadsLastPut =>
    /\ r2Last.found
    /\ r2Last.ret.size = Len(TextEncode(r2LastPut[1].value.data))
    /\ r2Last.op = "get" => r2Last.text = r2LastPut[1].value.data

\* C10 (amended): for every key and every text v without unpaired surrogates, get and
\* head after put(k, v) find the object and report as size the number of bytes of
\* the UTF-8 form of v; text() of the handle is v when, in addition, v does not begin
\* with the byte order mark U+FEFF.
C10_RoundTripWellFormedText ==
  ReadsLastPut /\ WellFormed(r2LastPut[1].value.data) =>
    /\ r2Last.found
    /\ r2Last.ret.size = Utf8Length(r2LastPut[1].value.data)
    /\ (r2Last.op = "get" /\ ~StartsWithByteOrderMark(r2LastPut[1].value.data))
         => r2Last.text = r2LastPut[1].value.data

\* C10 witness: a text of one supplementary character is put and read back: the text
\* is the same, the size is 4
C10_Witness ==
  /\ ReadsLastPut
  /\ r2Last.op = "get"
  /\ r2LastPut[1].value.data = <<55357, 56832>>
  /\ r2Last.text = <<55357, 56832>>
  /\ r2Last.ret.size = 4

\* the step completes a put on a key that holds an object
Overwrites ==
  /\ Len(r2Pending') < Len(r2Pending)
  /\ r2Last'.op = "put"
  /\ MapHas(r2Store, r2Last'.key)

\* the object stored by the step is made of the put's arguments only
ReplacedEntirely ==
  LET new == MapGet(r2Store', r2Last'.key)[1]
      put == r2LastPut'[1]
  IN /\ new.body = toArrayBuffer(put.value)
     /\ new.meta.size = Len(new.body)
     /\ new.meta.uploaded = DateNow
     /\ new.meta.customMetadata = put.customMetadata
     /\ new.meta.key = r2Last'.key
     /\ Len(r2Store') = Len(r2Store)

\* C11 (as stated): every put on a key that holds an object replaces the object
\* entirely (payload, size, uploaded time, customMetadata) and gives it an etag that
\* differs from the etag of the object it replaced.
C11_OverwriteNewEtag ==
  [][Overwrites =>
       /\ ReplacedEntirely
       /\ MapGet(r2Store', r2Last'.key)[1].meta.etag
            # MapGet(r2Store, r2Last'.key)[1].meta.etag]_vars

\* C11 (the part that holds): every put on a key that holds an object replaces
\* payload, size, uploaded time and customMetadata by those of the put.
C11_OverwriteReplaces ==
  [][Overwrites => ReplacedEntirely]_vars

(***************************************************************************)
(* ServiceBindingClient: reset and termination                             *)
(***************************************************************************)
\* what _reset() is documented to clear
ResetClears ==
  /\ calls = <<>>
  /\ responses = <<>>
  /\ customHandler = None
  /\ defaultResponse = InitialDefaultResponse

\* C12 (as stated): after any sequence of calls, _reset() leaves the client as it was
\* right after construction with the same arguments: empty call history, no rules,
\* no handler, the initial default response and the construction-time capacity.
C12_ResetRestoresConstruction ==
  fLast.op = "reset" =>
    /\ ResetClears
    /\ maxCallHistory = ConfiguredMax(fConfig)

\* C12 (the part that holds): _reset() empties the call history, removes the rules
\* and the handler and restores the initial default response.
C12_ResetClearsCollections ==
  fLast.op = "reset" => ResetClears

\* C13 (as stated): every operation, once invoked, runs to completion; fetch and
\* _setMaxCallHistory end for every integer capacity given at construction or set
\* live, 0 and negative values included (no call is left in its eviction loop).
C13_OperationsComplete ==
  fPc # "diverged"

\* C13 (the part that holds): a call is left in its eviction loop only under a
\* negative capacity.
C13_NonNegativeCompletes ==
  fPc = "diverged" => maxCallHistory < 0

(***************************************************************************)
(* RelationalQueryEngine: results of the execution methods                 *)
(***************************************************************************)
\* the dispatch function returned nothing, or none is installed
NothingDispatched(r) == r.t \in {"null", "undefined", "nofn"}

\* C14 (as stated): first() returns element 0 of a non-empty dispatch array, null for
\* an empty array, the object itself for a single object, and null when the dispatch
\* function returns null or undefined or none is installed.
C14_FirstNullOnNothing ==
  d1Last.op = "first" =>
    LET r == d1Last.dispatch
    IN /\ (r.t = "array" /\ r.items # <<>>) => d1Last.ret = r.items[1]
       /\ (r.t = "array" /\ r.items = <<>>) => d1Last.ret = JsNull
       /\ r.t = "object" => d1Last.ret = r
       /\ NothingDispatched(r) => d1Last.ret = JsNull

\* C14 (the part that holds): as above, except that first() returns undefined, not
\* null, when the dispatch function returns undefined.
C14_FirstReturnsDispatched ==
  d1Last.op = "first" =>
    LET r == d1Last.dispatch
    IN /\ (r.t = "array" /\ r.items # <<>>) => d1Last.ret = r.items[1]
       /\ (r.t = "array" /\ r.items = <<>>) => d1Last.ret = JsNull
       /\ r.t = "object" => d1Last.ret = r
       /\ r.t \in {"null", "nofn"} => d1Last.ret = JsNull
       /\ r.t = "undefined" => d1Last.ret = JsUndefined

\* the result of all() for a list of rows
WrapsRows(ret, rows) ==
  /\ ret.results = rows
  /\ ret.success = TRUE
  /\ ret.meta = DefaultMeta

\* C15 (as stated): all() returns {results, success: true, meta} with the dispatch
\* array as results, a single object wrapped as one row, the empty list when nothing
\* is dispatched; an object that carries a meta field is passed through as the full
\* result instead of being wrapped.
C15_AllPassesMetaThrough ==
  d1Last.op = "all" =>
    LET r == d1Last.dispatch
    IN /\ r.t = "array" => WrapsRows(d1Last.ret, r.items)
       /\ (r.t = "object" /\ ~HasMeta(r)) => WrapsRows(d1Last.ret, <<r>>)
       /\ (r.t = "object" /\ HasMeta(r)) => d1Last.ret = r
       /\ NothingDispatched(r) => WrapsRows(d1Last.ret, <<>>)

\* C15 (the part that holds): as above, except that an object carrying a meta field
\* is wrapped as one row like every other object.
C15_AllWrapsEveryObject ==
  d1Last.op = "all" =>
    LET r == d1Last.dispatch
    IN /\ r.t = "array" => WrapsRows(d1Last.ret, r.items)
       /\ r.t = "object" => WrapsRows(d1Last.ret, <<r>>)
       /\ NothingDispatched(r) => WrapsRows(d1Last.ret, <<>>)

\* C16: run() returns the dispatch result unchanged when it is an object carrying a
\* meta field; in every other case it returns success true with one synthetic
\* affected row: changes = 1, rows_written = 1, last_row_id = 1, changed_db = true.
C16_RunPassThroughOrSynthetic ==
  d1Last.op = "run" =>
    IF d1Last.dispatch.t = "object" /\ HasMeta(d1Last.dispatch)
    THEN d1Last.ret = d1Last.dispatch
    ELSE /\ d1Last.ret.success = TRUE
         /\ d1Last.ret.results = <<>>
         /\ d1Last.ret.meta.changes = 1
         /\ d1Last.ret.meta.rows_written = 1
         /\ d1Last.ret.meta.last_row_id = 1
         /\ d1Last.ret.meta.changed_db = TRUE

\* C16 witness: run() of a statement for which the dispatch function returns a full
\* result with a meta field
C16_Witness ==
  /\ d1Last.op = "run"
  /\ d1Last.dispatch = MetaResult
  /\ d1Last.ret = MetaResult

\* C17: the dispatch function called by an execution receives exactly the values of
\* the most recent bind on that statement, the empty list if it was never bound.
C17_BindReplaces ==
  (d1Last.op \in ExecutionMethods /\ mockFn # None) =>
    d1Last.received = IF stmts[d1Last.stmt].lastBind = None THEN <<>>
                      ELSE stmts[d1Last.stmt].lastBind[1]

\* C17 witness: a statement bound to "1", then to "2", is executed: the dispatch
\* function receives "2" alone
C17_Witness ==
  /\ d1Last.op \in ExecutionMethods
  /\ mockFn # None
  /\ bindings = <<<<"1">>, <<"2">>>>
  /\ \A s \in StmtIds : s # d1Last.stmt => stmts[s].lastBind = None
  /\ d1Last.received = <<"2">>

(***************************************************************************)
(* RelationalQueryEngine: batch, sessions, capacity                        *)
(***************************************************************************)
\* C18: batch(statements) calls run() on each statement in list order and returns one
\* result per statement, in order, each with success true; the query history grows
\* by exactly one entry per statement, in statement order.
C18_BatchRunsInOrder ==
  d1Last.op = "batch" =>
    /\ Len(d1Last.ret) = Len(d1Last.list)
    /\ \A i \in 1..Len(d1Last.ret) :
         d1Last.ret[i].success = TRUE /\ d1Last.ret[i].results = <<>>
    /\ Len(queries) = d1Last.from + Len(d1Last.list)
    /\ \A i \in 1..Len(d1Last.list) :
         queries[d1Last.from + i] = stmts[d1Last.list[i]].query

\* C18 witness: a batch of two statements with different query texts, the second
\* handle first, has returned
C18_Witness ==
  /\ d1Last.op = "batch"
  /\ d1Last.list = <<2, 1>>
  /\ stmts[2].query = "q2"
  /\ stmts[1].query = "q1"
  /\ queries = <<"q2", "q1">>
  /\ Len(d1Last.ret) = 2

\* the step is a call made through a session object or one of its statements
ThroughSession == "via" \in DOMAIN d1Last' /\ d1Last'.via >= 1

\* C19: a session shares its parent's history and dispatch function and keeps only
\* its bookmark: executions and exec through a session are appended to the parent's
\* query history and binds to the parent's binding history, in call order; the
\* dispatch function installed on the parent at the time of the execution is the one
\* used; the parent's _reset clears what sessions recorded.
C19_SessionSharesParent ==
  [][/\ (ThroughSession /\ d1Last'.op \in ExecutionMethods) =>
          /\ queries' = Append(queries, stmts[d1Last'.stmt].query)
          /\ d1Last'.dispatch = (IF mockFn = None THEN NoDispatch
                                 ELSE MockApply(mockFn[1], stmts[d1Last'.stmt].query,
                                                stmts[d1Last'.stmt].boundValues))
     /\ (ThroughSession /\ d1Last'.op = "exec") =>
          queries' = Append(queries, d1Last'.query)
     /\ (ThroughSession /\ d1Last'.op = "bind") =>
          bindings' = Append(bindings, d1Last'.values)
     /\ (ThroughSession /\ d1Last'.op = "getBookmark") =>
          /\ d1Last'.ret \in {MockBookmark} \cup Bookmarks
          /\ d1Last'.ret = MockBookmark <=>
               d1Sessions[d1Last'.via].constraintOrBookmark = None
     /\ d1Last'.op = "reset" => queries' = <<>> /\ bindings' = <<>> /\ mockFn' = None
     /\ \A i \in 1..Len(d1Sessions) :
          i <= Len(d1Sessions') /\ d1Sessions'[i] = d1Sessions[i]]_vars

\* C19 witness: a statement prepared through a session that was created before any
\* dispatch function was installed is executed and gets the result of the dispatch
\* function installed since; the query is in the shared history
C19_Witness ==
  /\ d1Last.op \in ExecutionMethods
  /\ d1Last.via >= 1
  /\ d1Sessions[d1Last.via].mockAtCreation = None
  /\ d1Last.dispatch # NoDispatch
  /\ queries # <<>>
  /\ queries[Len(queries)] = stmts[d1Last.stmt].query

\* C20 (as stated): the engine has a configurable maxQueryHistory capacity and
\* evicts the oldest entries first, so the query history never exceeds it.
C20_BoundedQueryHistory ==
  d1Config # None => Len(queries) <= d1Config[1]

(***************************************************************************)
(* KeyValueStore: TTL clearing, removal, absence, limits                   *)
(***************************************************************************)
\* C21: a put(k, v) that gives neither expirationTtl nor expiration removes the TTL
\* recorded for k: as long as no later put, delete or reset touches k, k has no TTL
\* entry and stays in the store whatever the clock shows, a get(k) returns its value
\* and a list never sets it aside as expired.
C21_PlainPutClearsTtl ==
  /\ \A k \in DOMAIN kvHist.plain :
       /\ k \notin DOMAIN ttls
       /\ MapHas(store, k)
       /\ (kvLast.op = "get" /\ kvLast.key = k) => kvLast.ret = MapGet(store, k)[1]
       /\ kvLast.op = "list" => \A e \in Range(kvLast.dropped) : e.name # k
  /\ (kvHist.step.op = "put" /\ kvHist.step.key \in DOMAIN kvHist.plain) =>
       kvHist.step.key \notin DOMAIN ttls

\* C21 witness: a key whose TTL was cleared by a plain put is read, and returned,
\* after the instant at which the cleared TTL would have expired it
C21_Witness ==
  /\ kvLast.op = "get"
  /\ kvLast.key \in DOMAIN kvHist.plain
  /\ kvHist.plain[kvLast.key] # None
  /\ kvLast.now > kvHist.plain[kvLast.key][1] * MsPerSec
  /\ kvLast.ret = "v1"

\* a key is in none of the three maps
Gone(k) == ~MapHas(store, k) /\ k \notin DOMAIN ttls /\ k \notin DOMAIN metadata

\* the last step was a get or getWithMetadata whose snapshot was past the TTL of its key
FoundExpired ==
  /\ kvHist.step.op \in {"get", "getWithMetadata"}
  /\ kvHist.step.had.ttl # None
  /\ kvLast.now > kvHist.step.had.ttl[1] * MsPerSec

\* C22: a key removed by delete, or because get, getWithMetadata or list found it
\* expired, leaves the value store, the TTL map and the metadata map together (so no
\* TTL or metadata entry ever exists without a value), and get / getWithMetadata on
\* an expired key return null (value null and metadata null).
C22_RemovedFromAllMaps ==
  /\ \A k \in DOMAIN ttls \cup DOMAIN metadata : MapHas(store, k)
  /\ kvHist.step.op = "delete" => Gone(kvHist.step.key)
  /\ FoundExpired =>
       /\ Gone(kvHist.step.key)
       /\ kvLast.ret = Null
       /\ kvHist.step.op = "getWithMetadata" => kvLast.meta = Null
  /\ kvLast.op = "list" => \A e \in Range(kvLast.dropped) : Gone(e.name)

\* C22 witness: getWithMetadata has found a key with metadata expired and answered
\* null for both
C22_Witness ==
  /\ FoundExpired
  /\ kvHist.step.op = "getWithMetadata"
  /\ kvHist.step.had.meta # None
  /\ kvHist.step.had.value # None
  /\ kvLast.ret = Null
  /\ kvLast.meta = Null
  /\ Gone(kvHist.step.key)

\* the keys a finished list() call could have returned: in the store, starting with
\* the prefix and not expired at the snapshot of the call
LiveMatching ==
  {store[i].key : i \in {j \in 1..Len(store) :
     /\ StartsWith(store[j].key, kvLast.prefix)
     /\ ~isExpiredAt(ttls, store[j].key, kvLast.now)}}

\* C23: no call of the store raises: get and getWithMetadata on an absent or expired
\* key return null, list returns no key when no live key matches the prefix, delete
\* of an absent key changes none of the three maps, and get with type 'json' on a
\* stored text that is not JSON returns that text.
C23_NeverFails ==
  /\ kvLast.op = "get" => ~kvLast.raised
  /\ (kvHist.step.op \in {"get", "getWithMetadata"}
        /\ (kvHist.step.had.value = None \/ FoundExpired)) =>
       /\ kvLast.ret = Null
       /\ kvHist.step.op = "getWithMetadata" => kvLast.meta = Null
  /\ (kvLast.op = "list" /\ LiveMatching = {}) => kvLast.keys = <<>>
  /\ (kvHist.step.op = "delete" /\ kvHist.step.had.value = None) => ~kvHist.step.changed
  /\ (kvHist.step.op = "get" /\ kvLast.type = Some("json")
        /\ kvHist.step.had.value # None /\ ~FoundExpired
        /\ JsonParse(kvHist.step.had.value[1]) = None) =>
       kvLast.ret = kvHist.step.had.value[1]

\* C23 witness: a get with type 'json' has returned a stored text that is not JSON
C23_Witness ==
  /\ kvHist.step.op = "get"
  /\ kvLast.type = Some("json")
  /\ kvHist.step.had.value = Some("{")
  /\ ~FoundExpired
  /\ ~kvLast.raised
  /\ kvLast.ret = "{"

\* the names a finished list() call returned
ListedNames == {e.name : e \in Range(kvLast.keys)}

\* C24 as stated: for every limit >= 0 (default 1000) list returns at most limit keys,
\* all starting with the prefix, and list_complete is true exactly when every live
\* key matching the prefix was returned.
C24_ListLimit ==
  kvLast.op = "list" =>
    /\ Len(kvLast.keys) <= kvLast.limit
    /\ \A e \in Range(kvLast.keys) : StartsWith(e.name, kvLast.prefix)
    /\ kvLast.list_complete = (LiveMatching \subseteq ListedNames)

\* C24, the part that holds: every returned key starts with the prefix and is live;
\* for a limit >= 1 at most limit keys are returned; list_complete is
\* (number of keys returned < limit), so it is false whenever a live matching key
\* was left out and true only if every live matching key was returned.
C24_ListLimitFromOne ==
  kvLast.op = "list" =>
    /\ kvLast.limit >= 1 => Len(kvLast.keys) <= kvLast.limit
    /\ \A e \in Range(kvLast.keys) : StartsWith(e.name, kvLast.prefix)
    /\ ListedNames \subseteq LiveMatching
    /\ kvLast.list_complete = (Len(kvLast.keys) < kvLast.limit)
    /\ kvLast.list_complete => LiveMatching \subseteq ListedNames

(***************************************************************************)
(* ObjectStore: list, delete, json                                         *)
(***************************************************************************)
\* the metadata of the stored objects whose key starts with a prefix, in insertion order
RECURSIVE MatchingMetas(_, _)
MatchingMetas(entries, prefix) ==
  IF entries = <<>> THEN <<>>
  ELSE IF StartsWith(Head(entries).key, prefix)
       THEN <<Head(entries).value.meta>> \o MatchingMetas(Tail(entries), prefix)
       ELSE MatchingMetas(Tail(entries), prefix)

\* the objects returned are the first ones, in insertion order, whose key starts with
\* the prefix
FirstMatching ==
  /\ Len(r2Last.objects) <= Len(MatchingMetas(r2Store, r2Last.prefix))
  /\ r2Last.objects = SubSeq(MatchingMetas(r2Store, r2Last.prefix), 1, Len(r2Last.objects))

\* C25 as stated: list({prefix, limit}) returns only objects whose key starts with the
\* prefix, in insertion order, never more than limit objects (default 1000) for every
\* limit >= 0, and truncated = (number of objects returned >= limit).
C25_ListUpToLimit ==
  r2Last.op = "list" =>
    /\ FirstMatching
    /\ Len(r2Last.objects) <= r2Last.limit
    /\ r2Last.truncated = (Len(r2Last.objects) >= r2Last.limit)

\* C25, the part that holds: the objects are the first matching ones in insertion
\* order, truncated = (number of objects returned >= limit), and for a limit >= 1
\* at most limit objects are returned (for limit 0, at most one).
C25_ListUpToLimitFromOne ==
  r2Last.op = "list" =>
    /\ FirstMatching
    /\ r2Last.limit >= 1 => Len(r2Last.objects) <= r2Last.limit
    /\ r2Last.limit = 0 => Len(r2Last.objects) <= 1
    /\ r2Last.truncated = (Len(r2Last.objects) >= r2Last.limit)

\* the keys named by a delete call
Named(keys) == {keys[i] : i \in 1..Len(keys)}

\* C26: delete(key | keys[]) removes exactly the named keys that are stored, ignores
\* the named keys that are not, and leaves every other stored object, and the order
\* of the objects, unchanged; a get or head of a named key made next returns null.
C26_DeleteRemovesNamed ==
  [][/\ r2Last'.op = "delete" =>
          /\ r2Store' = SelectSeq(r2Store, LAMBDA e : e.key \notin Named(r2Last'.keys))
          /\ r2Last'.present = {k \in Named(r2Last'.keys) : MapHas(r2Store, k)}
          /\ \A k \in Named(r2Last'.keys) : ~MapHas(r2Store', k)
     /\ (r2Last.op = "delete" /\ r2Last'.op \in {"get", "head"}
           /\ r2Last'.key \in Named(r2Last.keys)) => ~r2Last'.found]_vars

\* C26 witness: a delete of two keys, one stored and one not, has left another
\* object in the store
C26_Witness ==
  /\ r2Last.op = "delete"
  /\ Len(r2Last.keys) = 2
  /\ Cardinality(r2Last.present) = 1
  /\ r2Store # <<>>
  /\ \A k \in Named(r2Last.keys) : ~MapHas(r2Store, k)

\* C27 as stated: json() of a retrieval handle never raises, also when the stored
\* payload is not JSON.
C27_JsonNeverRaises ==
  (r2Last.op = "get" /\ r2Last.found) => ~r2Last.json.raised

\* C27, the part that holds: json() returns the parsed value when the decoded payload
\* is JSON, and raises exactly when it is not.
C27_JsonRaisesOnMalformed ==
  (r2Last.op = "get" /\ r2Last.found) =>
    /\ r2Last.json.raised = (JsonParseText(r2Last.text) = None)
    /\ ~r2Last.json.raised => r2Last.json.value = JsonParseText(r2Last.text)[1]

(***************************************************************************)
(* ServiceBindingClient: recording of concurrent calls                     *)
(***************************************************************************)
\* the call record of fetch number n is in the history
Recorded(n) == \E i \in 1..Len(calls) : calls[i].n = n

\* C28: with maxCallHistory >= 1, every fetch appends exactly one call record (url,
\* method, flattened headers, stringified body, timestamp) when it is called, so
\* before its promise settles, whether a handler, a rule or the default answers and
\* also when the handler throws; the records of fetches issued without awaiting are
\* in the history in the order of the calls, and a record leaves the history only
\* by eviction of the oldest.
C28_RecordsEveryFetch ==
  /\ [](\A i \in 1..Len(calls) : \A j \in 1..Len(calls) :
           i < j => calls[i].n < calls[j].n)
  /\ [](\A n \in fInFlight :
           Recorded(n) \/ (Len(calls) = maxCallHistory /\ calls[1].n > n))
  /\ [][fetchSeq' = fetchSeq + 1 =>
          /\ fetchSeq' \in fInFlight'
          /\ fLast'.ret.kind \in {"handler", "thrown", "response"}
          /\ calls' = Evict(Append(calls, calls'[Len(calls')]), maxCallHistory)
          /\ calls'[Len(calls')] =
               [n |-> fetchSeq', url |-> fLast'.input.url,
                method |-> CallMethod(fLast'.input, fLast'.init),
                headers |-> ExtractHeaders(fLast'.init),
                body |-> IF fLast'.init = None THEN None ELSE fLast'.init[1].body,
                timestamp |-> DateNow]]_vars

\* C28 witness: two fetches are in flight at once, the later one under a handler that
\* threw, and both records are in the history in the order of the calls
C28_Witness ==
  /\ Cardinality(fInFlight) >= 2
  /\ fLast.op = "fetch"
  /\ fLast.ret.kind = "thrown"
  /\ Len(calls) >= 2
  /\ calls[Len(calls)].n = fetchSeq
  /\ calls[Len(calls) - 1].n = fetchSeq - 1
  /\ {fetchSeq, fetchSeq - 1} \subseteq fInFlight
  /\ calls[Len(calls)].headers = [x \in {"X"} |-> "2"]
  /\ calls[Len(calls)].timestamp > 0

(***************************************************************************)
(* Reset                                                                   *)
(***************************************************************************)
\* what an execution method returns when nothing is dispatched
NoDispatchDefault(method, ret) ==
  CASE method = "first" -> ret = JsNull
    [] method = "all" -> ret = D1Result(<<>>)
    [] method = "raw" -> ret = <<>>
    [] method = "run" -> ret = SyntheticRun

\* C29: _reset(), after any sequence of prepare, bind, execution, exec, batch and
\* _setupMock calls, leaves the query history and the binding history empty and no
\* dispatch function installed; until a dispatch function is installed again every
\* execution returns its no-dispatch default (first null, all an empty result set,
\* raw an empty list, run the synthetic affected row).
C29_ResetClearsEngine ==
  /\ d1Last.op = "reset" => (queries = <<>> /\ bindings = <<>> /\ mockFn = None)
  /\ d1Hist.sinceReset => mockFn = None
  /\ (d1Hist.sinceReset /\ d1Last.op \in ExecutionMethods) =>
       /\ d1Last.dispatch = NoDispatch
       /\ NoDispatchDefault(d1Last.op, d1Last.ret)

\* C29 witness: a statement bound and executed under a dispatch function is executed
\* again after _reset and returns null, with its query as the only history entry
C29_Witness ==
  /\ d1Hist.sinceReset
  /\ d1Hist.mock
  /\ d1Hist.queries > 0
  /\ d1Hist.bindings > 0
  /\ d1Last.op = "first"
  /\ d1Last.received # <<>>
  /\ d1Last.ret = JsNull
  /\ Len(queries) = 1
  /\ bindings = <<>>

\* what get, getWithMetadata and list of a key-value store return when nothing is stored
KvReadsAsFresh ==
  /\ kvLast.op = "get" => (~kvLast.raised /\ kvLast.ret = Null)
  /\ kvLast.op = "getWithMetadata" => (kvLast.ret = Null /\ kvLast.meta = Null)
  /\ kvLast.op = "list" => (kvLast.keys = <<>> /\ kvLast.list_complete)

\* what get, head and list of an object store return when nothing is stored
R2ReadsAsFresh ==
  /\ r2Last.op \in {"get", "head"} => ~r2Last.found
  /\ r2Last.op = "list" => (r2Last.objects = <<>> /\ ~r2Last.truncated)

\* C30 (as stated): _reset() of the key-value store, of the object store and of the
\* metrics sink, after any sequence of operations, leaves every internal collection
\* empty (value, TTL and metadata maps; object map; data-point log), so that until
\* the next write is called every read (get, getWithMetadata, head, list) returns
\* what it returns on a freshly constructed instance.
C30_ResetMakesFresh ==
  /\ resetHist.kv => (store = <<>> /\ ttls = EmptyFn /\ metadata = EmptyFn /\ KvReadsAsFresh)
  /\ r2Last.op = "reset" => r2Store = <<>>
  /\ resetHist.r2 => (r2Store = <<>> /\ R2ReadsAsFresh)
  /\ resetHist.ae => dataPoints = <<>>

\* C30 (what the code does): _reset() empties the collections at the moment it is
\* called; the key-value store and the metrics sink then read as fresh until the
\* next write, and the object store does so when no put() was in flight at the
\* reset. A put() suspended at its conversion is not cancelled: it stores its object
\* after the reset.
C30_ResetClearsCollections ==
  /\ resetHist.kv => (store = <<>> /\ ttls = EmptyFn /\ metadata = EmptyFn /\ KvReadsAsFresh)
  /\ r2Last.op = "reset" => r2Store = <<>>
  /\ (resetHist.r2 /\ resetHist.r2Quiet) => (r2Store = <<>> /\ R2ReadsAsFresh)
  /\ (resetHist.r2 /\ r2Pending = <<>> /\ r2Store # <<>>) => ~resetHist.r2Quiet
  /\ resetHist.ae => dataPoints = <<>>

\* C30 witness: an object store reset while a put() was in flight returns the object
\* of that put from a later get, although no write was called after the reset
C30_Witness ==
  /\ resetHist.r2
  /\ ~resetHist.r2Quiet
  /\ r2Pending = <<>>
  /\ r2Last.op = "get"
  /\ r2Last.found

(***************************************************************************)
(* MetricsSink log                                                         *)
(***************************************************************************)
\* a field of the argument of writeDataPoint, undefined when not supplied
Supplied(arg, field) == IF arg = None THEN None ELSE arg[1][field]

\* C31: the metrics sink is an append-only log: writeDataPoint appends exactly one
\* data point holding the supplied indexes, doubles and blobs (each undefined when
\* not supplied, also for a call without argument) and the call-time timestamp, and
\* leaves the earlier data points unchanged and in their order; after n writes since
\* construction or the last _reset the log has exactly n entries.
C31_AppendOnlyLog ==
  /\ Len(dataPoints) = aeHist.writes
  /\ aeHist.op = "write" =>
       /\ Len(dataPoints) = Len(aeHist.before) + 1
       /\ SubSeq(dataPoints, 1, Len(dataPoints) - 1) = aeHist.before
       /\ LET last == dataPoints[Len(dataPoints)]
          IN /\ last.indexes = Supplied(aeHist.arg, "indexes")
             /\ last.doubles = Supplied(aeHist.arg, "doubles")
             /\ last.blobs = Supplied(aeHist.arg, "blobs")
             /\ last.timestamp = aeHist.at

\* C31 witness: a call without argument is the second write, at a later clock value;
\* the log holds the earlier data point and the new one with no field set
C31_Witness ==
  /\ aeHist.op = "write"
  /\ aeHist.arg = None
  /\ aeHist.writes = 2
  /\ Len(dataPoints) = 2
  /\ dataPoints[1].indexes # None
  /\ dataPoints[2].indexes = None
  /\ dataPoints[2].doubles = None
  /\ dataPoints[2].blobs = None
  /\ dataPoints[2].timestamp > dataPoints[1].timestamp

(***************************************************************************)
(* ObjectStore: operations issued without awaiting                         *)
(***************************************************************************)
\* the state of key "a" is the one the operation issued last leaves
AsIssuedLast ==
  /\ r2Hist.last.op = "put" =>
       /\ MapHas(r2Store, <<"a">>)
       /\ MapGet(r2Store, <<"a">>)[1].body = toArrayBuffer(r2Hist.last.value)
  /\ r2Hist.last.op = "delete" => ~MapHas(r2Store, <<"a">>)

\* C32 (as stated): operations of the object store issued concurrently take effect
\* in the order they were invoked: put has no suspension point before it updates
\* the store, so once put(k, a) and a later put(k, b) or delete(k), issued without
\* awaiting, have all resolved, the state of k is that of the later-issued one, for
\* every input shape.
C32_IssueOrder == r2Pending = <<>> => AsIssuedLast

\* C32 (what the code does): put() suspends at its conversion before it updates the
\* store. Once all calls have resolved the state of k is that of the call issued
\* last when every call was issued behind puts of text or byte buffers only, which
\* resume in the order of their invocation; a delete() issued behind a suspended
\* put() and a put() issued behind one of a blob or a stream may be overtaken.
C32_IssueOrderBehindNone ==
  /\ (r2Pending = <<>> /\ r2Hist.inOrder) => AsIssuedLast
  /\ r2Last.op = "putInvoked" => r2Pending # <<>>

\* C32 witness: delete() was issued behind a suspended put(); both have resolved and
\* a get finds the object of the put
C32_Witness ==
  /\ r2Pending = <<>>
  /\ r2Hist.last.op = "delete"
  /\ ~r2Hist.inOrder
  /\ r2Last.op = "get"
  /\ r2Last.found

(***************************************************************************)
(* RelationalQueryEngine: calls issued while a batch runs                  *)
(***************************************************************************)
\* the query texts of the statements of a list, in list order
QueriesOf(list) == [i \in 1..Len(list) |-> stmts[list[i]].query]

\* the history entries appended since the batch that just returned was called
SinceBatch == SubSeq(QueryLog, d1Last.from + 1, Len(QueryLog))

\* C33 (as stated): batch is one uninterrupted sequence: the query-history entries
\* appended by one batch call are contiguous and in statement order, also when
\* another call is issued on the engine or on one of its sessions before the batch
\* has resolved.
C33_BatchContiguous ==
  d1Last.op = "batch" =>
    /\ Len(QueryLog) >= d1Last.from + Len(d1Last.list)
    /\ \A i \in 1..Len(d1Last.list) :
         /\ QueryLog[d1Last.from + i].by = "batch"
         /\ queries[d1Last.from + i] = QueriesOf(d1Last.list)[i]

\* C33 (what the code does): batch awaits run() of each statement, so calls issued
\* meanwhile append between its entries. The entries of one batch are in statement
\* order, one per statement, and they are contiguous when no other call appended
\* while the batch was suspended.
C33_BatchInOrder ==
  /\ Len(QueryLog) = Len(queries)
  /\ \A i \in 1..Len(queries) : QueryLog[i].query = queries[i]
  /\ d1Last.op = "batch" =>
       LET own == SelectSeq(SinceBatch, LAMBDA e : e.by = "batch")
       IN /\ [i \in 1..Len(own) |-> own[i].query] = QueriesOf(d1Last.list)
          /\ (\A i \in 1..Len(SinceBatch) : SinceBatch[i].by = "batch") =>
               SubSeq(queries, d1Last.from + 1, Len(queries)) = QueriesOf(d1Last.list)

\* C33 witness: a batch of two statements has returned and the exec of a session,
\* issued while it was suspended, lies between its two entries
C33_Witness ==
  /\ d1Last.op = "batch"
  /\ d1Last.list = <<1, 2>>
  /\ Len(QueryLog) = d1Last.from + 3
  /\ QueryLog[d1Last.from + 1].by = "batch"
  /\ QueryLog[d1Last.from + 2].by = "other"
  /\ QueryLog[d1Last.from + 3].by = "batch"
  /\ stmts[1].query = "q1"
  /\ queries[d1Last.from + 2] = "q2"
  /\ queries[d1Last.from + 3] = "q1"

(***************************************************************************)
(* KeyValueStore: metadata                                                 *)
(***************************************************************************)
\* the keys for which the call that just returned gave metadata
ReturnedMetadata ==
  IF kvLast.op = "getWithMetadata"
  THEN IF kvLast.meta # Null THEN {kvLast.key} ELSE {}
  ELSE IF kvLast.op = "list"
  THEN {kvLast.keys[i].name : i \in {j \in 1..Len(kvLast.keys) : kvLast.keys[j].metadata # None}}
  ELSE {}

\* C34 (as stated): metadata never outlives its key: neither getWithMetadata(k) nor
\* list returns metadata attached by a put whose value has since expired or been
\* deleted, also when k is written again by a put without metadata option before any
\* read has touched the expired key.
C34_MetadataDiesWithKey ==
  \A k \in ReturnedMetadata : k \in DOMAIN Attached /\ ~Attached[k].lapsed

\* C34 (what the code does): the metadata of a key is wiped by delete and by the
\* cleanup of a call that finds the key expired, and by nothing else: the metadata
\* map holds exactly what the puts attached since the last of these, and a put
\* without metadata option on an expired key hands the old metadata to the new value.
C34_MetadataWipedOnCleanup ==
  /\ DOMAIN metadata = DOMAIN Attached
  /\ \A k \in DOMAIN metadata : metadata[k] = Attached[k].meta
  /\ ReturnedMetadata \subseteq DOMAIN Attached

\* C34 witness: getWithMetadata returns, with a live value, the metadata of a put
\* whose value had expired before the key was written again without metadata
C34_Witness ==
  /\ kvLast.op = "getWithMetadata"
  /\ kvLast.ret = "v1"
  /\ kvLast.meta = "m1"
  /\ kvLast.key \in DOMAIN Attached
  /\ Attached[kvLast.key].lapsed

\* the call that changed the metadata of key k in this step is one that may
MayChangeMetadata(k) ==
  LET step == kvHist'.step
  IN \/ step.op = "put" /\ step.key = k /\ step.meta # None
     \/ step.op = "delete" /\ step.key = k
     \/ step.op \in {"get", "getWithMetadata"} /\ step.key = k /\ step.expired
     \/ step.op = "list" /\ isExpiredAt(ttls, k, listNow)
     \/ step.op = "reset"

\* C38: a put(k, v, opts) without metadata option replaces the value and replaces or
\* clears the TTL of k and leaves the metadata stored for k unchanged; the metadata
\* of k changes only through a put that supplies metadata, a delete of k, an expiry
\* cleanup of k, or _reset.
C38_PutKeepsMetadata ==
  [][/\ \A k \in Keys : FnGet(metadata', k) # FnGet(metadata, k) => MayChangeMetadata(k)
     /\ (kvPc = "idle" /\ kvHist'.step.op = "put" /\ kvHist'.step.meta = None) =>
          LET k == kvHist'.step.key
          IN /\ metadata' = metadata
             /\ MapGet(store', k) = Some("v1")
             /\ FnGet(ttls', k) = PutExpiration(DateNow, kvHist'.step.ttl, None)
             /\ \A o \in Keys \ {k} :
                  MapGet(store', o) = MapGet(store, o) /\ FnGet(ttls', o) = FnGet(ttls, o)]_vars

\* C38 witness: a put with a TTL and without metadata option has overwritten a key
\* that carried metadata; the metadata is still there, under the new TTL
C38_Witness ==
  /\ kvHist.step.op = "put"
  /\ kvHist.step.meta = None
  /\ kvHist.step.ttl = Some(1)
  /\ kvHist.step.key \in DOMAIN ttls
  /\ kvHist.step.key \in DOMAIN Attached
  /\ ~Attached[kvHist.step.key].lapsed
  /\ FnGet(metadata, kvHist.step.key) = Some("m2")

(***************************************************************************)
(* KeyValueStore: list cleanup, lazy expiration, map consistency           *)
(***************************************************************************)
\* the names list() has set aside as expired
SetAside == {expiredKeys[i].name : i \in 1..Len(expiredKeys)}

\* C35: list cleans up in two passes: the backing maps are not modified while list
\* iterates the store; the keys it found expired are removed (value, TTL and
\* metadata) only after the iteration, and when list returns none of them remains in
\* any of the three maps; an expired key the scan did not reach (prefix mismatch, or
\* lying behind the point where the limit stopped the scan) is left in place.
C35_TwoPassCleanup ==
  /\ [](kvLast.op = "list" => \A i \in 1..Len(kvLast.dropped) : Gone(kvLast.dropped[i].name))
  /\ [][/\ kvPc' = "list" => UNCHANGED <<store, ttls, metadata>>
        /\ (kvPc = "list" /\ kvPc' = "idle") =>
             /\ store' = SelectSeq(store, LAMBDA e : e.key \notin SetAside)
             /\ ttls' = Without(ttls, SetAside)
             /\ metadata' = Without(metadata, SetAside)
             /\ \A k \in SetAside :
                  /\ isExpiredAt(ttls, k, listNow)
                  /\ StartsWith(k, listPrefix)
                  /\ \E i \in 1..Len(store) : store[i].key = k]_vars

\* C35 witness: a list under a prefix has returned after removing an expired key, and
\* an expired key outside the prefix is still stored
C35_Witness ==
  /\ kvLast.op = "list"
  /\ Len(kvLast.dropped) = 1
  /\ kvLast.prefix # <<>>
  /\ \E i \in 1..Len(store) :
       /\ isExpiredAt(ttls, store[i].key, kvLast.now)
       /\ ~StartsWith(store[i].key, kvLast.prefix)

\* key k is in the store before the step and not after it
Removed(k) == MapHas(store, k) /\ ~MapHas(store', k)

\* the step leaves value, TTL and metadata of key k as they are
Untouched(k) ==
  /\ MapGet(store', k) = MapGet(store, k)
  /\ FnGet(ttls', k) = FnGet(ttls, k)
  /\ FnGet(metadata', k) = FnGet(metadata, k)

\* C36: expiration is lazy and local: an expired key stays physically in the maps
\* until a get or getWithMetadata on that very key, or a list whose scan reaches it,
\* removes it; get, getWithMetadata, put and delete on a key never change value, TTL
\* or metadata of another key; and no call removes a key that is not expired at the
\* snapshot of the call, other than delete and _reset.
C36_LazyLocalExpiration ==
  [][LET step == kvHist'.step
     IN /\ (kvPc = "idle" /\ step.op \in {"get", "getWithMetadata", "put", "delete"}) =>
             \A o \in Keys \ {step.key} : Untouched(o)
        /\ (kvPc = "idle" /\ step.op \in {"advance", "listStart"}) =>
             \A o \in Keys : Untouched(o)
        /\ \A k \in Keys : Removed(k) =>
             \/ step.op = "delete" /\ step.key = k
             \/ step.op = "reset"
             \/ /\ step.op \in {"get", "getWithMetadata"}
                /\ step.key = k
                /\ isExpiredAt(ttls, k, DateNow)
             \/ /\ step.op = "list"
                /\ isExpiredAt(ttls, k, listNow)
                /\ StartsWith(k, listPrefix)]_vars

\* C36 witness: a get has just removed its expired key while another expired key,
\* with its TTL and metadata, is still in the maps
C36_Witness ==
  /\ kvHist.step.op = "get"
  /\ kvHist.step.changed
  /\ kvHist.step.had.value # None
  /\ Gone(kvHist.step.key)
  /\ \E o \in Keys \ {kvHist.step.key} :
       /\ MapHas(store, o)
       /\ o \in DOMAIN metadata
       /\ isExpiredAt(ttls, o, DateNow)

\* the keys of the value store
StoredKeys == {store[i].key : i \in 1..Len(store)}

\* C37: after any sequence of put, get, getWithMetadata, delete, list and _reset
\* calls, every key present in the TTL map or in the metadata map is also present
\* in the value store.
C37_MapsConsistent ==
  /\ DOMAIN ttls \subseteq StoredKeys
  /\ DOMAIN metadata \subseteq StoredKeys

\* C37 witness: a delete has removed a key that had a TTL and metadata, while the
\* other key is still stored with its TTL and metadata
C37_Witness ==
  /\ kvHist.step.op = "delete"
  /\ kvHist.step.had.ttl # None
  /\ kvHist.step.had.meta # None
  /\ Gone(kvHist.step.key)
  /\ StoredKeys # {}
  /\ DOMAIN ttls = StoredKeys
  /\ DOMAIN metadata = StoredKeys

(***************************************************************************)
(* ServiceBindingClient: rules registered again                            *)
(***************************************************************************)
\* the registered pattern is the first string rule in the matching order
FirstStringRule ==
  /\ fHist.pattern.kind = "string"
  /\ \A i \in 1..(fHist.at - 1) : responses[i].key.kind # "string"

\* C39: _setupResponse with a pattern that is already registered (the same string, or
\* the same regex object) replaces the response of that rule in place and keeps the
\* position of the rule in the matching order; it neither adds a second rule nor
\* moves the rule behind the rules registered in between. (A new pattern is added
\* behind the others.)
C39_ReRegistrationInPlace ==
  /\ \A i, j \in 1..Len(responses) : responses[i].key = responses[j].key => i = j
  /\ fHist.op = "setupResponse" =>
       LET rule == [key |-> fHist.pattern, value |-> fHist.config]
       IN IF fHist.at = 0
          THEN responses = Append(fHist.before, rule)
          ELSE /\ Len(responses) = Len(fHist.before)
               /\ responses[fHist.at] = rule
               /\ \A i \in 1..Len(responses) : i # fHist.at => responses[i] = fHist.before[i]
               /\ (fLast.op = "fetch" /\ FirstStringRule) =>
                    fLast.ret = createResponse(fHist.config)

\* C39 witness: the first of three rules, a string pattern, was registered again with
\* another response; a fetch of a URL that every rule matches got the new response
C39_Witness ==
  /\ fHist.op = "setupResponse"
  /\ fHist.at = 1
  /\ Len(responses) = 3
  /\ fHist.pattern.kind = "string"
  /\ responses[2].key.kind = "string"
  /\ fHist.before[1].value # fHist.config
  /\ responses[2].value # fHist.config
  /\ fLast.op = "fetch"
  /\ fLast.ret = createResponse(fHist.config)
====
